---- MODULE Spec2Model ----
(***************************************************************************)
(* Model of the invoice-splitting core of the Xero contact manager:        *)
(* src/src/constants.py (account-number grammar) and                       *)
(* src/src/invoice_splitter.py (billing period resolver, pro-rata split    *)
(* calculator, two-phase invoice mutation).                                *)
(*                                                                         *)
(* Dates are proleptic Gregorian ordinals (datetime.date.toordinal()),     *)
(* money read from the invoice store is in pence, the amounts returned by  *)
(* calculate_split are in tenths of a pound (they are produced by          *)
(* math.ceil(x * 10) / 10), strings are sequences of one-character         *)
(* strings, and Python floats are IEEE-754 doubles m * 2^e with m a        *)
(* 53-bit natural kept as a big-endian sequence of base-2^15 limbs.        *)
(***************************************************************************)
EXTENDS Integers, Sequences, FiniteSets, TLC

VARIABLES
    pc,               \* position of the operator-driven workflow
    contact_data,     \* [AccountNumber]: the contact handed to the splitter
    invoice,          \* [Date, Total, HasDate, LineItems]: the invoice handed to the splitter
    vacate_date,      \* operator input
    move_in_date,     \* operator input
    billing_info,     \* argument of calculate_invoice_period
    period,           \* value returned by calculate_invoice_period
    log,              \* messages printed by the except handlers
    split_result,     \* value returned by calculate_split
    store,            \* external invoice store: [old_reduced, new_created]
    writes,           \* external writes issued so far, in order
    exec_result,      \* value returned by execute_invoice_split
    incremented,      \* value returned by increment_account_sequence
    parsed_account,   \* value returned by parse_account_number
    can_split         \* value returned by can_split_invoices

vars == <<pc, contact_data, invoice, vacate_date, move_in_date, billing_info,
          period, log, split_result, store, writes, exec_result, incremented,
          parsed_account, can_split>>

----------------------------------------------------------------------------
(* Bounds of the model *)

BaseYear == 2024       \* first calendar year invoice dates are drawn from
NumYears == 2          \* number of calendar years invoice dates are drawn from

----------------------------------------------------------------------------
(* datetime.date: constructor, replace(), ordinal arithmetic *)

IsLeap(y) == (y % 4 = 0) /\ ((y % 100 # 0) \/ (y % 400 = 0))

DaysInMonth(y, m) ==
    IF m = 2 THEN (IF IsLeap(y) THEN 29 ELSE 28)
    ELSE IF m \in {4, 6, 9, 11} THEN 30 ELSE 31

\* date(y, m, d) raises ValueError unless this holds
DateOK(y, m, d) == m \in 1..12 /\ d >= 1 /\ d <= DaysInMonth(y, m)

DaysBeforeYear(y) ==
    (y - 1) * 365 + ((y - 1) \div 4) - ((y - 1) \div 100) + ((y - 1) \div 400)

RECURSIVE DaysBeforeMonth(_, _)
DaysBeforeMonth(y, m) ==
    IF m = 1 THEN 0 ELSE DaysBeforeMonth(y, m - 1) + DaysInMonth(y, m - 1)

\* the ordinal of a valid date(y, m, d)
Date(y, m, d) == DaysBeforeYear(y) + DaysBeforeMonth(y, m) + d

YearRange == (BaseYear - 1)..(BaseYear + NumYears + 1)

Year(o) == CHOOSE y \in YearRange :
               DaysBeforeYear(y) < o /\ o <= DaysBeforeYear(y + 1)
Month(o) == CHOOSE m \in 1..12 :
                /\ Date(Year(o), m, 1) <= o
                /\ o < Date(Year(o), m, 1) + DaysInMonth(Year(o), m)
Day(o) == o - Date(Year(o), Month(o), 1) + 1

----------------------------------------------------------------------------
(* XeroInvoiceSplitter.calculate_invoice_period *)

Raised == [raised |-> TRUE, start |-> 0, end |-> 0]
Returned(s, e) == [raised |-> FALSE, start |-> s, end |-> e]

\* MonthlyPeriod without the January -> December year rollover
MonthlyPeriod_no_rollover(invoice_date, start_day) ==
    LET y  == Year(invoice_date)
        m  == Month(invoice_date)
        sm == IF Day(invoice_date) >= start_day THEN m
              ELSE IF m = 1 THEN 12 ELSE m - 1
        ny == IF sm = 12 THEN y + 1 ELSE y
        nm == IF sm = 12 THEN 1 ELSE sm + 1
    IN  IF ~DateOK(y, sm, start_day) \/ ~DateOK(ny, nm, start_day)
        THEN Raised
        ELSE Returned(Date(y, sm, start_day), Date(ny, nm, start_day) - 1)

\* MonthlyPeriod taking an invoice issued on the start day as the previous month's
MonthlyPeriod_after_start_day(invoice_date, start_day) ==
    LET y  == Year(invoice_date)
        m  == Month(invoice_date)
        sy == IF Day(invoice_date) > start_day THEN y
              ELSE IF m = 1 THEN y - 1 ELSE y
        sm == IF Day(invoice_date) > start_day THEN m
              ELSE IF m = 1 THEN 12 ELSE m - 1
        ny == IF sm = 12 THEN sy + 1 ELSE sy
        nm == IF sm = 12 THEN 1 ELSE sm + 1
    IN  IF ~DateOK(sy, sm, start_day) \/ ~DateOK(ny, nm, start_day)
        THEN Raised
        ELSE Returned(Date(sy, sm, start_day), Date(ny, nm, start_day) - 1)

\* the monthly branch; a ValueError of replace() leaves the try block
MonthlyPeriod(invoice_date, start_day) ==
    LET y  == Year(invoice_date)
        m  == Month(invoice_date)
        sy == IF Day(invoice_date) >= start_day THEN y
              ELSE IF m = 1 THEN y - 1 ELSE y
        sm == IF Day(invoice_date) >= start_day THEN m
              ELSE IF m = 1 THEN 12 ELSE m - 1
        ny == IF sm = 12 THEN sy + 1 ELSE sy
        nm == IF sm = 12 THEN 1 ELSE sm + 1
    IN  IF ~DateOK(sy, sm, start_day) \/ ~DateOK(ny, nm, start_day)
        THEN Raised
        ELSE Returned(Date(sy, sm, start_day), Date(ny, nm, start_day) - 1)

quarterly_months == <<1, 4, 7, 10>>

\* the month of the next quarter start as the loops compute it
NextQuarterMonth(quarter_month) ==
    IF quarter_month <= 10 THEN quarter_month + 3 ELSE 1
NextQuarterYear(quarter_month, y) ==
    IF quarter_month <= 10 THEN y ELSE y + 1

\* One of the two for-loops over quarterly_months, from index i, for the
\* quarters that start in year y.  found = 0 when the loop ends without break.
RECURSIVE QuarterLoop(_, _, _, _)
QuarterLoop(invoice_date, start_day, y, i) ==
    IF i > Len(quarterly_months)
    THEN [raised |-> FALSE, found |-> 0, start |-> 0, end |-> 0]
    ELSE LET qm == quarterly_months[i]
             nm == NextQuarterMonth(qm)
             ny == NextQuarterYear(qm, y)
         IN  IF ~DateOK(y, qm, start_day) \/ ~DateOK(ny, nm, start_day)
             THEN [raised |-> TRUE, found |-> 0, start |-> 0, end |-> 0]
             ELSE IF /\ Date(y, qm, start_day) <= invoice_date
                     /\ invoice_date < Date(ny, nm, start_day)
                  THEN [raised |-> FALSE, found |-> qm,
                        start |-> Date(y, qm, start_day),
                        end |-> Date(ny, nm, start_day) - 1]
                  ELSE QuarterLoop(invoice_date, start_day, y, i + 1)

\* the quarterly branch: the invoice's year, then the previous year; leaving
\* the second loop without a match leaves period_start unbound at the return
QuarterlyPeriod(invoice_date, start_day) ==
    LET cur == QuarterLoop(invoice_date, start_day, Year(invoice_date), 1)
        prv == QuarterLoop(invoice_date, start_day, Year(invoice_date) - 1, 1)
    IN  IF cur.raised THEN Raised
        ELSE IF cur.found # 0 THEN Returned(cur.start, cur.end)
        ELSE IF prv.raised \/ prv.found = 0 THEN Raised
        ELSE Returned(prv.start, prv.end)

\* the body of the try block
PeriodBody(invoice_date, info) ==
    IF info.frequency = "monthly"
    THEN MonthlyPeriod(invoice_date, info.schedule.start_day)
    ELSE IF info.frequency = "quarterly"
    THEN QuarterlyPeriod(invoice_date, info.schedule.start_day)
    ELSE Raised

\* what the caller receives: the except handler turns every exception into
\* the 90-day period starting at the invoice date
calculate_invoice_period(invoice_date, info) ==
    LET body == PeriodBody(invoice_date, info)
    IN  IF body.raised
        THEN [start |-> invoice_date, end |-> invoice_date + 89]
        ELSE [start |-> body.start, end |-> body.end]

\* the except handler prints "Error calculating invoice period"
PeriodErrorPrinted(invoice_date, info) == PeriodBody(invoice_date, info).raised

----------------------------------------------------------------------------
(* constants.py: the account-number grammar *)

Upper == {"A", "B", "C", "D", "E", "F", "G", "H", "I", "J", "K", "L", "M",
          "N", "O", "P", "Q", "R", "S", "T", "U", "V", "W", "X", "Y", "Z"}
Digit == {"0", "1", "2", "3", "4", "5", "6", "7", "8", "9"}

\* where '$' matches: at the end, or just before one trailing newline
PatternEnd(s) ==
    IF Len(s) > 0 /\ s[Len(s)] = "\n" THEN Len(s) - 1 ELSE Len(s)

\* re.match(r'^([A-Z]{3}\d{5})(\d)(/[A-Z0-9]+)$', s)
ACCOUNT_NUMBER_PATTERN(s) ==
    LET n == PatternEnd(s)
    IN  /\ n >= 11
        /\ \A i \in 1..3 : s[i] \in Upper
        /\ \A i \in 4..9 : s[i] \in Digit
        /\ s[10] = "/"
        /\ \A i \in 11..n : s[i] \in (Upper \cup Digit)

NotParsed == [ok |-> FALSE, base_code |-> <<>>, sequence_digit |-> <<>>,
              contact_code |-> <<>>]

parse_account_number(account_number) ==
    IF ACCOUNT_NUMBER_PATTERN(account_number)
    THEN [ok |-> TRUE,
          base_code |-> SubSeq(account_number, 1, 8),
          sequence_digit |-> SubSeq(account_number, 9, 9),
          contact_code |-> SubSeq(account_number, 10, PatternEnd(account_number))]
    ELSE NotParsed

\* int() of a string of decimal digits
DigitValue(c) == CHOOSE v \in 0..9 : <<"0", "1", "2", "3", "4", "5", "6", "7", "8", "9">>[v + 1] = c

RECURSIVE StrToInt(_)
StrToInt(s) ==
    IF Len(s) = 0 THEN 0
    ELSE 10 * StrToInt(SubSeq(s, 1, Len(s) - 1)) + DigitValue(s[Len(s)])

\* str() of a natural number
RECURSIVE IntToStr(_)
IntToStr(n) ==
    LET last == <<"0", "1", "2", "3", "4", "5", "6", "7", "8", "9">>[(n % 10) + 1]
    IN  IF n < 10 THEN <<last>> ELSE IntToStr(n \div 10) \o <<last>>

NoAccount == [ok |-> FALSE, value |-> <<>>]

increment_account_sequence(account_number) ==
    LET parsed == parse_account_number(account_number)
    IN  IF ~parsed.ok THEN NoAccount
        ELSE [ok |-> TRUE,
              value |-> parsed.base_code
                        \o IntToStr(StrToInt(parsed.sequence_digit) + 1)
                        \o parsed.contact_code]

----------------------------------------------------------------------------
(* constants.py: the contact codes and their billing schedules *)

CONTACT_CODES ==
    {<<"/", "1", "A">>, <<"/", "2", "A">>, <<"/", "1", "B">>, <<"/", "3", "A">>,
     <<"/", "3", "B">>, <<"/", "3", "C">>, <<"/", "3", "D">>, <<"/", "1", "C">>,
     <<"/", "A">>, <<"/", "B">>, <<"/", "D">>, <<"/", "P">>, <<"/", "Q">>,
     <<"/", "R">>, <<"/", "S">>, <<"/", "C", "R">>, <<"/", "L", "H">>}

\* a start_day or period_days of 0 stands for None
Schedule(f, d, n) == [frequency |-> f, start_day |-> d, period_days |-> n]

BILLING_SCHEDULES ==
    (<<"/", "1", "A">> :> Schedule("quarterly", 1, 90))  @@
    (<<"/", "2", "A">> :> Schedule("quarterly", 5, 90))  @@
    (<<"/", "1", "B">> :> Schedule("quarterly", 12, 90)) @@
    (<<"/", "3", "A">> :> Schedule("quarterly", 14, 90)) @@
    (<<"/", "3", "B">> :> Schedule("monthly", 1, 30))    @@
    (<<"/", "3", "C">> :> Schedule("monthly", 16, 30))   @@
    (<<"/", "3", "D">> :> Schedule("monthly", 23, 30))   @@
    (<<"/", "1", "C">> :> Schedule("quarterly", 1, 90))  @@
    (<<"/", "A">> :> Schedule("quarterly", 1, 90))       @@
    (<<"/", "B">> :> Schedule("quarterly", 1, 90))       @@
    (<<"/", "D">> :> Schedule("quarterly", 1, 90))       @@
    (<<"/", "P">> :> Schedule("irregular", 0, 0))        @@
    (<<"/", "Q">> :> Schedule("one-off", 0, 0))          @@
    (<<"/", "R">> :> Schedule("none", 0, 0))             @@
    (<<"/", "S">> :> Schedule("none", 0, 0))             @@
    (<<"/", "C", "R">> :> Schedule("quarterly", 1, 90))  @@
    (<<"/", "L", "H">> :> Schedule("quarterly", 1, 90))

\* BILLING_SCHEDULES.get(contact_code), None as a schedule of frequency "None"
get_billing_schedule(contact_code) ==
    IF contact_code \in DOMAIN BILLING_SCHEDULES
    THEN BILLING_SCHEDULES[contact_code]
    ELSE Schedule("None", 0, 0)

get_billing_frequency(contact_code) == get_billing_schedule(contact_code).frequency

is_regular_billing_code(contact_code) ==
    get_billing_frequency(contact_code) \in {"monthly", "quarterly"}

can_split_invoices(contact_code) == is_regular_billing_code(contact_code)

----------------------------------------------------------------------------
(* XeroInvoiceSplitter.get_contact_billing_info *)

Quarterly(d) == [frequency |-> "quarterly", start_month |-> 1, start_day |-> d]
Monthly(d) == [frequency |-> "monthly", start_month |-> 1, start_day |-> d]

\* the BILLING_SCHEDULES table local to get_contact_billing_info
SplitterSchedules ==
    (<<"/", "1", "A">> :> Quarterly(1))  @@ (<<"/", "2", "A">> :> Quarterly(5)) @@
    (<<"/", "1", "B">> :> Quarterly(12)) @@ (<<"/", "3", "A">> :> Quarterly(14)) @@
    (<<"/", "3", "B">> :> Monthly(1))    @@ (<<"/", "3", "C">> :> Monthly(16)) @@
    (<<"/", "3", "D">> :> Monthly(23))   @@
    (<<"/", "1", "C">> :> Quarterly(1))  @@ (<<"/", "A">> :> Quarterly(1)) @@
    (<<"/", "B">> :> Quarterly(1))       @@ (<<"/", "D">> :> Quarterly(1))

NoSchedule == [frequency |-> "None", start_month |-> 0, start_day |-> 0]
NoError == [msg |-> "None", args |-> <<>>]

get_contact_billing_info(contact) ==
    LET account_number == contact.AccountNumber
        parsed == parse_account_number(account_number)
    IN  IF ~parsed.ok
        THEN [error |-> [msg |-> "Cannot parse account number",
                         args |-> <<account_number>>],
              contact_code |-> <<>>, frequency |-> "None", schedule |-> NoSchedule]
        ELSE IF parsed.contact_code \notin DOMAIN SplitterSchedules
        THEN [error |-> [msg |-> "Unknown contact code",
                         args |-> <<parsed.contact_code>>],
              contact_code |-> parsed.contact_code, frequency |-> "None",
              schedule |-> NoSchedule]
        ELSE [error |-> NoError,
              contact_code |-> parsed.contact_code,
              frequency |-> SplitterSchedules[parsed.contact_code].frequency,
              schedule |-> SplitterSchedules[parsed.contact_code]]

----------------------------------------------------------------------------
(* Python float: IEEE-754 binary64, round-to-nearest-even.  A natural       *)
(* number is a big-endian sequence of limbs without leading zeros.          *)

LimbBase == 2^15
MantissaBits == 53     \* sys.float_info.mant_dig

RECURSIVE Strip(_)
Strip(a) == IF Len(a) > 0 /\ a[1] = 0 THEN Strip(Tail(a)) ELSE a

RECURSIVE MulCarry(_, _, _)
MulCarry(a, k, c) ==
    IF c = 0 /\ Len(a) = 0 THEN <<>>
    ELSE IF Len(a) = 0 THEN <<c>>
    ELSE LET v == a[Len(a)] * k + c
         IN  MulCarry(SubSeq(a, 1, Len(a) - 1), k, v \div LimbBase)
                 \o <<v % LimbBase>>

\* a * k for a small k
MulSmall(a, k) == Strip(MulCarry(a, k, 0))

RECURSIVE AddCarry(_, _)
AddCarry(a, c) ==
    IF c = 0 THEN a
    ELSE IF Len(a) = 0 THEN <<c>>
    ELSE LET v == a[Len(a)] + c
         IN  AddCarry(SubSeq(a, 1, Len(a) - 1), v \div LimbBase)
                 \o <<v % LimbBase>>

RECURSIVE DivStep(_, _, _, _)
DivStep(a, d, i, r) ==
    IF i > Len(a) THEN [q |-> <<>>, r |-> r]
    ELSE LET v    == r * LimbBase + a[i]
             rest == DivStep(a, d, i + 1, v % d)
         IN  [q |-> <<v \div d>> \o rest.q, r |-> rest.r]

\* quotient and remainder of a by a small d
DivSmall(a, d) ==
    LET qr == DivStep(a, d, 1, 0) IN [q |-> Strip(qr.q), r |-> qr.r]

RECURSIVE Bits(_)
Bits(n) == IF n = 0 THEN 0 ELSE 1 + Bits(n \div 2)

BitLen(a) == IF Len(a) = 0 THEN 0 ELSE Bits(a[1]) + 15 * (Len(a) - 1)

BigOf(n) ==
    Strip(<<n \div (LimbBase * LimbBase), (n \div LimbBase) % LimbBase,
            n % LimbBase>>)

RECURSIVE BigToInt(_)
BigToInt(a) ==
    IF Len(a) = 0 THEN 0
    ELSE BigToInt(SubSeq(a, 1, Len(a) - 1)) * LimbBase + a[Len(a)]

\* n * 2^k, a limb at a time
RECURSIVE ShiftLeft(_, _)
ShiftLeft(n, k) ==
    IF Len(n) = 0 \/ k = 0 THEN n
    ELSE IF k >= 15 THEN ShiftLeft(n \o <<0>>, k - 15)
    ELSE MulSmall(n, 2^k)

\* a value shifted right: the bits kept (q), the last bit shifted out (round)
\* and whether any bit below it was set (sticky)
Unshifted(n, sticky) == [q |-> n, round |-> FALSE, sticky |-> sticky]

\* j more bits shifted out, 1 <= j <= 15
ShiftChunk(rs, j) ==
    LET h == DivSmall(rs.q, 2^j)
    IN  [q |-> h.q, round |-> h.r >= 2^(j - 1),
         sticky |-> rs.sticky \/ rs.round \/ h.r % 2^(j - 1) # 0]

RECURSIVE ShiftRight(_, _)
ShiftRight(rs, k) ==
    IF k = 0 \/ (Len(rs.q) = 0 /\ ~rs.round) THEN rs
    ELSE IF k > 15 THEN ShiftRight(ShiftChunk(rs, 15), k - 15)
    ELSE ShiftChunk(rs, k)

FloatZero == [m |-> <<>>, e |-> 0]

\* the double nearest to (n / d) * 2^e, ties to even
RECURSIVE RoundDiv(_, _, _)
RoundDiv(n, d, e) ==
    IF Len(n) = 0 THEN FloatZero
    ELSE LET qr == DivSmall(n, d)
             bl == BitLen(qr.q)
         IN  IF bl < MantissaBits
             THEN RoundDiv(ShiftLeft(n, MantissaBits - bl), d,
                           e - (MantissaBits - bl))
             ELSE IF bl > MantissaBits
             THEN RoundDiv(n, d * 2^(bl - MantissaBits), e + (bl - MantissaBits))
             ELSE IF 2 * qr.r > d \/ (2 * qr.r = d /\ qr.q[Len(qr.q)] % 2 = 1)
                  THEN LET up == AddCarry(qr.q, 1)
                       IN  IF BitLen(up) > MantissaBits
                           THEN [m |-> DivSmall(up, 2).q, e |-> e + 1]
                           ELSE [m |-> up, e |-> e]
                  ELSE [m |-> qr.q, e |-> e]

\* float(x) of a decimal amount given in pence
FloatFromPence(p) == RoundDiv(BigOf(p), 100, 0)
\* x / n and x * k for a float x and an int
FloatDivInt(x, n) == RoundDiv(x.m, n, x.e)
FloatMulInt(x, k) == RoundDiv(MulSmall(x.m, k), 1, x.e)

\* math.ceil(x) for 0 <= x < 2^31
FloatCeil(x) ==
    IF x.e >= 0 THEN BigToInt(ShiftLeft(x.m, x.e))
    ELSE LET rs == ShiftRight(Unshifted(x.m, FALSE), 0 - x.e)
         IN  BigToInt(rs.q) + (IF rs.round \/ rs.sticky THEN 1 ELSE 0)

\* math.ceil(amount * 10) / 10, in tenths of a pound
RoundUp10p(amount) == FloatCeil(FloatMulInt(amount, 10))

\* float * float, float / float and round(x, 2)

Front(a) == IF Len(a) = 0 THEN <<>> ELSE SubSeq(a, 1, Len(a) - 1)
LastLimb(a) == IF Len(a) = 0 THEN 0 ELSE a[Len(a)]

RECURSIVE BigAddCarry(_, _, _)
BigAddCarry(a, b, c) ==
    IF c = 0 /\ Len(b) = 0 THEN a
    ELSE IF c = 0 /\ Len(a) = 0 THEN b
    ELSE IF Len(a) = 0 /\ Len(b) = 0 THEN <<c>>
    ELSE LET v == LastLimb(a) + LastLimb(b) + c
         IN  BigAddCarry(Front(a), Front(b), v \div LimbBase) \o <<v % LimbBase>>

BigAdd(a, b) == Strip(BigAddCarry(a, b, 0))

RECURSIVE LexGeq(_, _, _)
LexGeq(a, b, i) ==
    IF i > Len(a) THEN TRUE
    ELSE IF a[i] # b[i] THEN a[i] > b[i]
    ELSE LexGeq(a, b, i + 1)

\* a >= b
BigGeq(a, b) == Len(a) > Len(b) \/ (Len(a) = Len(b) /\ LexGeq(a, b, 1))

RECURSIVE BigSubBorrow(_, _, _)
BigSubBorrow(a, b, br) ==
    IF br = 0 /\ Len(b) = 0 THEN a
    ELSE IF Len(a) = 0 THEN <<>>
    ELSE LET v == LastLimb(a) - LastLimb(b) - br
         IN  BigSubBorrow(Front(a), Front(b), IF v < 0 THEN 1 ELSE 0)
                 \o <<IF v < 0 THEN v + LimbBase ELSE v>>

\* a - b for a >= b
BigSub(a, b) == Strip(BigSubBorrow(a, b, 0))

RECURSIVE BigMul(_, _)
BigMul(a, b) ==
    IF Len(b) = 0 THEN <<>>
    ELSE BigAdd(Strip(BigMul(a, Front(b)) \o <<0>>), MulSmall(a, LastLimb(b)))

\* round-half-even of a shifted value
RoundedUp(rs) == rs.round /\ (rs.sticky \/ LastLimb(rs.q) % 2 = 1)

\* the double nearest to n * 2^e (plus a positive remainder when sticky)
RoundBig(n, e, sticky) ==
    IF Len(n) = 0 THEN FloatZero
    ELSE IF BitLen(n) <= MantissaBits
    THEN [m |-> ShiftLeft(n, MantissaBits - BitLen(n)),
          e |-> e - (MantissaBits - BitLen(n))]
    ELSE LET k  == BitLen(n) - MantissaBits
             rs == ShiftRight(Unshifted(n, sticky), k)
             up == IF RoundedUp(rs) THEN AddCarry(rs.q, 1) ELSE rs.q
         IN  IF BitLen(up) > MantissaBits
             THEN [m |-> DivSmall(up, 2).q, e |-> e + k + 1]
             ELSE [m |-> up, e |-> e + k]

FloatMul(x, y) ==
    IF Len(x.m) = 0 \/ Len(y.m) = 0 THEN FloatZero
    ELSE RoundBig(BigMul(x.m, y.m), x.e + y.e, FALSE)

\* the next quotient limb of r / d, for r < d * LimbBase and a divisor whose
\* leading limb has its top bit set: the estimate from the two leading limbs
\* of r is at most two too large
QuotientDigit(r, d) ==
    LET lead == IF Len(r) > Len(d) THEN r[1] * LimbBase + r[2]
                ELSE IF Len(r) = Len(d) THEN r[1]
                ELSE 0
        qhat == IF lead \div d[1] >= LimbBase THEN LimbBase - 1
                ELSE lead \div d[1]
    IN  CHOOSE q \in {qhat - 2, qhat - 1, qhat} :
            /\ q >= 0
            /\ BigGeq(r, MulSmall(d, q))
            /\ ~BigGeq(r, MulSmall(d, q + 1))

\* long division of n by d from limb i on, with r the remainder so far
RECURSIVE LongDiv(_, _, _, _)
LongDiv(n, d, i, r) ==
    IF i > Len(n) THEN [q |-> <<>>, r |-> r]
    ELSE LET cur   == Strip(r \o <<n[i]>>)
             digit == QuotientDigit(cur, d)
             rest  == LongDiv(n, d, i + 1, BigSub(cur, MulSmall(d, digit)))
         IN  [q |-> <<digit>> \o rest.q, r |-> rest.r]

\* x / y for y # 0: the quotient of the mantissas to 15 * Len(y.m) fractional
\* bits, the remainder kept as the sticky bit
FloatDiv(x, y) ==
    IF Len(x.m) = 0 THEN FloatZero
    ELSE LET norm  == 15 - Bits(y.m[1])
             shift == 15 * Len(y.m)
             d     == ShiftLeft(y.m, norm)
             n     == ShiftLeft(ShiftLeft(x.m, norm), shift)
             qr    == LongDiv(n, d, Len(d), SubSeq(n, 1, Len(d) - 1))
         IN  RoundBig(Strip(qr.q), x.e - y.e - shift, Len(qr.r) > 0)

\* round(x, 2), in hundredths
Round2(x) ==
    IF Len(x.m) = 0 THEN 0 ELSE
    LET n  == MulSmall(x.m, 100)
        rs == IF x.e >= 0 THEN Unshifted(ShiftLeft(n, x.e), FALSE)
              ELSE ShiftRight(Unshifted(n, FALSE), 0 - x.e)
    IN  BigToInt(rs.q) + (IF RoundedUp(rs) THEN 1 ELSE 0)

\* the float of an amount given in tenths
FloatFromTenths(t) == RoundDiv(BigOf(t), 10, 0)

----------------------------------------------------------------------------
(* XeroInvoiceSplitter.calculate_split *)

Failure(m, a) == [success |-> FALSE, error |-> [msg |-> m, args |-> a]]
NoFailure == [success |-> TRUE]

\* DateCheck with the ordering test made before the two range tests
DateCheck_ordering_first(p, vacate, move_in) ==
    IF move_in <= vacate
    THEN Failure("Move-in date must be after vacate date", <<>>)
    ELSE IF vacate < p.start \/ vacate > p.end
    THEN Failure("Vacate date must be within invoice period", <<p.start, p.end>>)
    ELSE IF move_in < p.start \/ move_in > p.end
    THEN Failure("Move-in date must be within invoice period", <<p.start, p.end>>)
    ELSE NoFailure

\* DateCheck accepting a move-in on the vacate date
DateCheck_same_day(p, vacate, move_in) ==
    IF vacate < p.start \/ vacate > p.end
    THEN Failure("Vacate date must be within invoice period", <<p.start, p.end>>)
    ELSE IF move_in < p.start \/ move_in > p.end
    THEN Failure("Move-in date must be within invoice period", <<p.start, p.end>>)
    ELSE IF move_in < vacate
    THEN Failure("Move-in date must be after vacate date", <<>>)
    ELSE NoFailure

\* the three date validations, in the order of the code
DateCheck(p, vacate, move_in) ==
    IF vacate < p.start \/ vacate > p.end
    THEN Failure("Vacate date must be within invoice period", <<p.start, p.end>>)
    ELSE IF move_in < p.start \/ move_in > p.end
    THEN Failure("Move-in date must be within invoice period", <<p.start, p.end>>)
    ELSE IF move_in <= vacate
    THEN Failure("Move-in date must be after vacate date", <<>>)
    ELSE NoFailure

\* the inclusive day counts
total_days(p) == (p.end - p.start) + 1
previous_occupier_days(p, vacate) == (vacate - p.start) + 1
\* void_days counted with both end dates
void_days_inclusive(vacate, move_in) == move_in - vacate
void_days(vacate, move_in) == (move_in - vacate) - 1
new_occupier_days(p, move_in) == (p.end - move_in) + 1

\* daily_rate = total_amount / total_days
DailyRate(total_pence, all_days) == FloatDivInt(FloatFromPence(total_pence), all_days)

\* daily pro-rata amount of a bucket, rounded up to 10p
BucketAmount(daily_rate, days) == RoundUp10p(FloatMulInt(daily_rate, days))

calculate_split(inv, contact, vacate, move_in) ==
    LET info == get_contact_billing_info(contact)
        p    == calculate_invoice_period(inv.Date, info)
        daily_rate == DailyRate(inv.Total, total_days(p))
    IN  IF info.error # NoError THEN [success |-> FALSE, error |-> info.error]
        ELSE IF ~inv.HasDate THEN Failure("Cannot parse invoice date", <<>>)
        ELSE IF ~DateCheck(p, vacate, move_in).success
        THEN DateCheck(p, vacate, move_in)
        ELSE IF total_days(p) = 0
        THEN Failure("Error calculating split", <<"float division by zero">>)
        ELSE [success |-> TRUE,
              invoice_details |->
                  [total_amount |-> inv.Total, period_start |-> p.start,
                   period_end |-> p.end, total_days |-> total_days(p)],
              split_calculation |->
                  [daily_rate |-> daily_rate,
                   previous_occupier |->
                       [days |-> previous_occupier_days(p, vacate),
                        amount |-> BucketAmount(daily_rate,
                                       previous_occupier_days(p, vacate)),
                        period |-> <<p.start, vacate>>],
                   new_occupier |->
                       [days |-> new_occupier_days(p, move_in),
                        amount |-> BucketAmount(daily_rate,
                                       new_occupier_days(p, move_in)),
                        period |-> <<move_in, p.end>>],
                   void_period |->
                       [days |-> void_days(vacate, move_in),
                        amount |-> BucketAmount(daily_rate,
                                       void_days(vacate, move_in)),
                        period |-> IF void_days(vacate, move_in) > 0
                                   THEN <<vacate + 1, move_in - 1>> ELSE <<>>]],
              billing_info |-> info]

----------------------------------------------------------------------------
(* The line items written by modify_existing_invoice and create_new_invoice *)

\* invoice.get('LineItems', [])
LineItemsOf(inv) == IF "LineItems" \in DOMAIN inv THEN inv.LineItems ELSE <<>>

OptionalFields == {"ItemCode", "TaxAmount", "DiscountRate", "Tracking"}

\* the values of the optional fields that Python takes as false
Falsy == [ItemCode |-> "", TaxAmount |-> 0, DiscountRate |-> 0, Tracking |-> <<>>]

\* if line_item.get(field)
Truthy(line_item, field) ==
    field \in DOMAIN line_item /\ line_item[field] # Falsy[field]

\* the optional fields copied to the written line
Carried(line_item) ==
    [field \in {f \in OptionalFields : Truthy(line_item, f)} |-> line_item[field]]

\* new_amount / original_total, new_amount in tenths and the total in pence
scale_factor(new_amount, original_total) ==
    FloatDiv(FloatFromTenths(new_amount), FloatFromPence(original_total))

\* round(original_line_amount * scale_factor, 2), in pence
ModifiedLineAmount(line_item, scale) ==
    Round2(FloatMul(FloatFromPence(line_item.LineAmount), scale))

\* round(new_line_amount / float(Quantity), 2), in pence
ModifiedUnitAmount(new_line_amount, quantity) ==
    Round2(FloatDivInt(FloatFromPence(new_line_amount), quantity))

modified_line_item(line_item, scale, period_description) ==
    LET new_line_amount == ModifiedLineAmount(line_item, scale)
    IN  [LineAmount |-> new_line_amount,
         LineItemID |-> line_item.LineItemID,
         Description |-> <<line_item.Description, period_description>>,
         Quantity |-> line_item.Quantity,
         UnitAmount |-> ModifiedUnitAmount(new_line_amount, line_item.Quantity),
         AccountCode |-> line_item.AccountCode,
         TaxType |-> line_item.TaxType] @@ Carried(line_item)

modified_line_items(inv, new_amount, period_description) ==
    LET scale == scale_factor(new_amount, inv.Total)
    IN  [i \in 1..Len(LineItemsOf(inv)) |->
            modified_line_item(LineItemsOf(inv)[i], scale, period_description)]

\* round(original_line_amount * scale_factor, 2), in pence
NewLineAmount(line_item, scale) ==
    Round2(FloatMul(FloatFromPence(line_item.LineAmount), scale))

\* NewUnitAmount taking the line amount as the unit amount
NewUnitAmount_undivided(new_line_amount, quantity) == new_line_amount

\* round(new_line_amount / float(Quantity), 2), in pence
NewUnitAmount(new_line_amount, quantity) ==
    Round2(FloatDivInt(FloatFromPence(new_line_amount), quantity))

new_line_item(line_item, scale, period_description) ==
    LET new_line_amount == NewLineAmount(line_item, scale)
    IN  [LineAmount |-> new_line_amount,
         Description |-> <<line_item.Description, period_description>>,
         Quantity |-> line_item.Quantity,
         UnitAmount |-> NewUnitAmount(new_line_amount, line_item.Quantity),
         AccountCode |-> line_item.AccountCode,
         TaxType |-> line_item.TaxType] @@ Carried(line_item)

new_line_items(inv, new_amount, period_description) ==
    LET scale == scale_factor(new_amount, inv.Total)
    IN  [i \in 1..Len(LineItemsOf(inv)) |->
            new_line_item(LineItemsOf(inv)[i], scale, period_description)]

----------------------------------------------------------------------------
(* Inputs the specifications draw from *)

Window == 15           \* vacate and move-in dates lie within Window days of the invoice date

PropertyBases == {<<"A", "B", "C", "0", "0", "1", "2", "3">>,
                  <<"W", "D", "S", "0", "0", "7", "1", "4">>}

AccountNumberOf(base, seq, code) == base \o IntToStr(seq) \o code

\* contacts handed to the splitter: monthly, quarterly, a code the splitter
\* does not know, an account number outside the grammar, and one followed
\* by a newline
SplitAccounts ==
    { AccountNumberOf(<<"A", "B", "C", "0", "0", "1", "2", "3">>, 4, c) :
          c \in {<<"/", "3", "B">>, <<"/", "2", "A">>, <<"/", "P">>} }
    \cup {<<"A", "B", "C", "1", "2", "3">>,
          AccountNumberOf(<<"A", "B", "C", "0", "0", "1", "2", "3">>, 4,
                          <<"/", "3", "B", "\n">>)}

SplitInvoiceDates == {Date(BaseYear + 1, 2, 14), Date(BaseYear + 1, 1, 3)}

\* invoice totals in pence
SplitTotals == {0, 360, 28084}

AllDates == Date(BaseYear, 1, 1)..Date(BaseYear + NumYears - 1, 12, 31)

InfoOfCode(c) ==
    [error |-> NoError, contact_code |-> c,
     frequency |-> SplitterSchedules[c].frequency, schedule |-> SplitterSchedules[c]]
InfoOfFrequency(f) ==
    [error |-> NoError, contact_code |-> <<>>, frequency |-> f, schedule |-> NoSchedule]

PeriodInfos ==
    { InfoOfCode(c) : c \in DOMAIN SplitterSchedules }
    \cup { InfoOfFrequency(f) : f \in {"one-off", "irregular", "none", "None"} }

ContactCodeSamples == {<<"/", "1", "A">>, <<"/", "2", "A">>, <<"/", "3", "B">>,
                       <<"/", "P">>, <<"/", "C", "R">>}

IncrementAccounts ==
    { AccountNumberOf(b, q, c) :
          b \in PropertyBases, q \in 0..9, c \in ContactCodeSamples }
    \cup {<<"A", "B", "C", "1", "2", "3">>, <<>>}

----------------------------------------------------------------------------
(* State before any operation has run *)

NoInfo == InfoOfFrequency("None")
NoPeriod == [start |-> 0, end |-> 0]
NotRun == [pending |-> TRUE]
NoInvoice == [Date |-> 0, Total |-> 0, HasDate |-> FALSE]
NoContact == [AccountNumber |-> <<>>]
EmptyStore == [old_reduced |-> FALSE, new_created |-> FALSE]

Idle ==
    /\ billing_info = NoInfo
    /\ period = NoPeriod
    /\ log = {}
    /\ split_result = NotRun
    /\ store = EmptyStore
    /\ writes = <<>>
    /\ exec_result = NotRun
    /\ incremented = NoAccount
    /\ parsed_account = NotParsed
    /\ can_split = FALSE

----------------------------------------------------------------------------
(* The splitting workflow: calculate_split, then execute_invoice_split *)

Init ==
    /\ pc = "input"
    /\ contact_data \in [AccountNumber : SplitAccounts]
    /\ invoice \in [Date : SplitInvoiceDates, Total : SplitTotals, HasDate : {TRUE}]
                   \cup {[Date |-> 0, Total |-> 360, HasDate |-> FALSE]}
    /\ vacate_date \in (invoice.Date - Window)..(invoice.Date + Window)
    /\ move_in_date \in (invoice.Date - Window)..(invoice.Date + Window)
    /\ Idle

\* calculate_split(invoice, contact_data, vacate_date, move_in_date)
CalculateSplit ==
    /\ pc = "input"
    /\ LET info    == get_contact_billing_info(contact_data)
           reached == info.error = NoError /\ invoice.HasDate
       IN  /\ billing_info' = info
           /\ period' = IF reached
                        THEN calculate_invoice_period(invoice.Date, info)
                        ELSE period
           /\ log' = IF reached /\ PeriodErrorPrinted(invoice.Date, info)
                     THEN log \cup {"Error calculating invoice period"}
                     ELSE log
    /\ split_result' = calculate_split(invoice, contact_data, vacate_date, move_in_date)
    /\ pc' = "calculated"
    /\ UNCHANGED <<parsed_account, can_split, contact_data, invoice, vacate_date, move_in_date, store,
                   writes, exec_result, incremented>>

\* ExecResult reporting success as soon as the modify write succeeded
ExecResult_modify_only(modified, created) ==
    [success |-> modified,
     modified_invoice |-> modified,
     created_invoice |-> created,
     previous_amount |-> split_result.split_calculation.previous_occupier.amount,
     new_amount |-> split_result.split_calculation.new_occupier.amount]

ExecResult(modified, created) ==
    [success |-> modified /\ created,
     modified_invoice |-> modified,
     created_invoice |-> created,
     previous_amount |-> split_result.split_calculation.previous_occupier.amount,
     new_amount |-> split_result.split_calculation.new_occupier.amount]

\* modify_existing_invoice returns False before any request when the
\* scale factor or a unit amount divides by zero
ModifyRaises(inv) ==
    inv.Total = 0 \/ \E i \in 1..Len(LineItemsOf(inv)) : LineItemsOf(inv)[i].Quantity = 0

\* the body of the request that replaces the line items of the invoice
ModifyPayload ==
    [op |-> "modify",
     amount |-> split_result.split_calculation.previous_occupier.amount,
     LineItems |-> modified_line_items(invoice,
                       split_result.split_calculation.previous_occupier.amount,
                       split_result.split_calculation.previous_occupier.period)]

\* the body of the request that creates the invoice of the new occupier
CreatePayload ==
    [op |-> "create",
     amount |-> split_result.split_calculation.new_occupier.amount,
     LineItems |-> new_line_items(invoice,
                       split_result.split_calculation.new_occupier.amount,
                       split_result.split_calculation.new_occupier.period)]

\* ModifyExistingInvoice going on to the create request whatever the answer
ModifyExistingInvoice_always_create(response) ==
    /\ pc = "calculated"
    /\ split_result.success
    /\ IF ModifyRaises(invoice)
       THEN /\ UNCHANGED <<writes, store>>
            /\ exec_result' = ExecResult(FALSE, FALSE)
            /\ pc' = "done"
       ELSE /\ writes' = Append(writes, ModifyPayload)
            /\ store' = IF response = "ok"
                        THEN [store EXCEPT !.old_reduced = TRUE] ELSE store
            /\ pc' = "create"
            /\ UNCHANGED exec_result
    /\ UNCHANGED <<parsed_account, can_split, contact_data, invoice, vacate_date, move_in_date, billing_info,
                   period, log, split_result, incremented>>

\* execute_invoice_split up to the answer of the modify request; when
\* modify_success is False the function returns at once
ModifyExistingInvoice(response) ==
    /\ pc = "calculated"
    /\ split_result.success
    /\ IF ModifyRaises(invoice)
       THEN /\ UNCHANGED <<writes, store>>
            /\ exec_result' = ExecResult(FALSE, FALSE)
            /\ pc' = "done"
       ELSE /\ writes' = Append(writes, ModifyPayload)
            /\ IF response = "ok"
               THEN /\ store' = [store EXCEPT !.old_reduced = TRUE]
                    /\ pc' = "create"
                    /\ UNCHANGED exec_result
               ELSE /\ UNCHANGED store
                    /\ exec_result' = ExecResult(FALSE, FALSE)
                    /\ pc' = "done"
    /\ UNCHANGED <<parsed_account, can_split, contact_data, invoice, vacate_date, move_in_date, billing_info,
                   period, log, split_result, incremented>>

\* execute_invoice_split from the create request to its return
CreateNewInvoice(response) ==
    /\ pc = "create"
    /\ writes' = Append(writes, CreatePayload)
    /\ store' = IF response = "ok" THEN [store EXCEPT !.new_created = TRUE] ELSE store
    /\ exec_result' = ExecResult(TRUE, response = "ok")
    /\ pc' = "done"
    /\ UNCHANGED <<parsed_account, can_split, contact_data, invoice, vacate_date, move_in_date, billing_info,
                   period, log, split_result, incremented>>

\* execute_invoice_split handed a result without 'split_calculation'
ExecuteWithoutSplit ==
    /\ pc = "calculated"
    /\ ~split_result.success
    /\ exec_result' = Failure("Error executing split", <<"split_calculation">>)
    /\ pc' = "done"
    /\ UNCHANGED <<parsed_account, can_split, contact_data, invoice, vacate_date, move_in_date, billing_info,
                   period, log, split_result, store, writes, incremented>>

Responses == {"ok", "error"}

Next ==
    \/ CalculateSplit
    \/ \E r \in Responses : ModifyExistingInvoice(r)
    \/ \E r \in Responses : CreateNewInvoice(r)
    \/ ExecuteWithoutSplit

Spec == Init /\ [][Next]_vars

----------------------------------------------------------------------------
(* The same workflow over invoices that carry line items *)

Line(id, amount, quantity, account_code, tax_type) ==
    [LineItemID |-> id, Description |-> "Water charges", Quantity |-> quantity,
     LineAmount |-> amount, AccountCode |-> account_code, TaxType |-> tax_type]

\* invoices as the store returns them: totals and line amounts in pence
LineInvoices ==
    { [Total |-> 28000, LineItems |-> <<Line("L1", 28000, 1, "200", "OUTPUT2")>>],
      [Total |-> 360,
       LineItems |->
           <<Line("L1", 300, 2, "200", "OUTPUT2")
                 @@ [ItemCode |-> "WATER", TaxAmount |-> 60],
             Line("L2", 60, 3, "260", "NONE")
                 @@ [ItemCode |-> "", TaxAmount |-> 0, DiscountRate |-> 0,
                     Tracking |-> <<>>]>>],
      [Total |-> 28084,
       LineItems |->
           <<Line("L1", 20000, 7, "200", "OUTPUT2")
                 @@ [DiscountRate |-> 10, Tracking |-> <<"Region">>],
             Line("L2", 8084, 1, "260", "NONE"),
             Line("L3", 0, 1, "200", "NONE")>>],
      [Total |-> 300,
       LineItems |->
           <<Line("L1", 100, 1, "200", "OUTPUT2"), Line("L2", 100, 1, "200", "OUTPUT2"),
             Line("L3", 100, 1, "200", "OUTPUT2")>>],
      [Total |-> 360, LineItems |-> <<Line("L1", 360, 0, "200", "OUTPUT2")>>],
      [Total |-> 360, LineItems |-> <<>>],
      [Total |-> 0, LineItems |-> <<Line("L1", 0, 1, "200", "OUTPUT2")>>] }

LineVacateDates ==
    {Date(BaseYear + 1, 2, 7), Date(BaseYear + 1, 2, 13), Date(BaseYear + 1, 3, 5)}
LineMoveInDates ==
    {Date(BaseYear + 1, 2, 16), Date(BaseYear + 1, 2, 22), Date(BaseYear + 1, 2, 28)}

InitLines ==
    /\ pc = "input"
    /\ contact_data =
           [AccountNumber |->
                AccountNumberOf(<<"A", "B", "C", "0", "0", "1", "2", "3">>, 4,
                                <<"/", "3", "B">>)]
    /\ \E inv \in LineInvoices :
           invoice = [Date |-> Date(BaseYear + 1, 2, 14), Total |-> inv.Total,
                      HasDate |-> TRUE, LineItems |-> inv.LineItems]
    /\ vacate_date \in LineVacateDates
    /\ move_in_date \in LineMoveInDates
    /\ Idle

SpecLines == InitLines /\ [][Next]_vars

----------------------------------------------------------------------------
(* The period resolver on its own, over every invoice date *)

InitPeriod ==
    /\ pc = "period_input"
    /\ contact_data = NoContact
    /\ invoice \in [Date : AllDates, Total : {0}, HasDate : {TRUE}]
    /\ vacate_date = 0
    /\ move_in_date = 0
    /\ billing_info \in PeriodInfos
    /\ period = NoPeriod
    /\ log = {}
    /\ split_result = NotRun
    /\ store = EmptyStore
    /\ writes = <<>>
    /\ exec_result = NotRun
    /\ incremented = NoAccount
    /\ parsed_account = NotParsed
    /\ can_split = FALSE

\* calculate_invoice_period(invoice_date, billing_info)
ResolvePeriod ==
    /\ pc = "period_input"
    /\ period' = calculate_invoice_period(invoice.Date, billing_info)
    /\ log' = IF PeriodErrorPrinted(invoice.Date, billing_info)
              THEN log \cup {"Error calculating invoice period"}
              ELSE log
    /\ pc' = "period_done"
    /\ UNCHANGED <<parsed_account, can_split, contact_data, invoice, vacate_date, move_in_date, billing_info,
                   split_result, store, writes, exec_result, incremented>>

NextPeriod == ResolvePeriod

SpecPeriod == InitPeriod /\ [][NextPeriod]_vars

----------------------------------------------------------------------------
(* Account numbers: increment_account_sequence, applied repeatedly *)

InitAccount ==
    /\ pc = "account_input"
    /\ contact_data \in [AccountNumber : IncrementAccounts]
    /\ invoice = NoInvoice
    /\ vacate_date = 0
    /\ move_in_date = 0
    /\ Idle

\* increment_account_sequence(account_number)
IncrementSequence ==
    /\ pc = "account_input"
    /\ incremented' = increment_account_sequence(contact_data.AccountNumber)
    /\ pc' = "account_done"
    /\ UNCHANGED <<parsed_account, can_split, contact_data, invoice, vacate_date, move_in_date, billing_info,
                   period, log, split_result, store, writes, exec_result>>

\* the returned account number becomes the next contact's account number
AdoptIncremented ==
    /\ pc = "account_done"
    /\ incremented.ok
    /\ contact_data' = [AccountNumber |-> incremented.value]
    /\ incremented' = NoAccount
    /\ pc' = "account_input"
    /\ UNCHANGED <<parsed_account, can_split, invoice, vacate_date, move_in_date, billing_info,
                   period, log, split_result, store, writes, exec_result>>

NextAccount == IncrementSequence \/ AdoptIncremented

SpecAccount == InitAccount /\ [][NextAccount]_vars

----------------------------------------------------------------------------
(* The account-number grammar and the two schedule tables *)

SequenceDigits == {0, 4, 9}

\* strings that are not account numbers: a three-character suffix, no
\* suffix, a lowercase letter, a short base, and extra characters before
\* and after an account number
MalformedAccounts ==
    LET base == <<"A", "B", "C", "0", "0", "1", "2", "3", "4">>
    IN  {base \o <<"/", "A", "B", "C">>, base \o <<"/", "1", "A", "2">>,
         base, base \o <<"/">>,
         base \o <<"/", "3", "b">>,
         <<"a", "B", "C", "0", "0", "1", "2", "3", "4", "/", "1", "A">>,
         <<"A", "B", "C", "0", "0", "1", "2", "3", "/", "1", "A">>,
         <<" ">> \o base \o <<"/", "1", "A">>,
         base \o <<"/", "1", "A", " ">>,
         base \o <<"/", "1", "A", "\n">>,
         base \o <<"/", "1", "A", "\n", "\n">>,
         base \o <<"/", "\n">>}

GrammarAccounts ==
    { AccountNumberOf(b, q, c) :
          b \in PropertyBases, q \in SequenceDigits, c \in CONTACT_CODES }
    \cup MalformedAccounts

InitGrammar ==
    /\ pc = "grammar_input"
    /\ contact_data \in [AccountNumber : GrammarAccounts]
    /\ invoice = NoInvoice
    /\ vacate_date = 0
    /\ move_in_date = 0
    /\ Idle

\* parse_account_number(account_number)
ParseAccountNumber ==
    /\ pc = "grammar_input"
    /\ parsed_account' = parse_account_number(contact_data.AccountNumber)
    /\ pc' = "parsed_account"
    /\ UNCHANGED <<can_split, contact_data, invoice, vacate_date, move_in_date,
                   billing_info, period, log, split_result, store, writes,
                   exec_result, incremented>>

\* get_contact_billing_info(contact_data)
GetContactBillingInfo ==
    /\ pc = "parsed_account"
    /\ billing_info' = get_contact_billing_info(contact_data)
    /\ pc' = "billing_info"
    /\ UNCHANGED <<parsed_account, can_split, contact_data, invoice, vacate_date,
                   move_in_date, period, log, split_result, store, writes,
                   exec_result, incremented>>

\* can_split_invoices(contact_code) of the parsed_account contact code
CanSplitInvoices ==
    /\ pc = "billing_info"
    /\ parsed_account.ok
    /\ can_split' = can_split_invoices(parsed_account.contact_code)
    /\ pc' = "grammar_done"
    /\ UNCHANGED <<parsed_account, contact_data, invoice, vacate_date, move_in_date,
                   billing_info, period, log, split_result, store, writes,
                   exec_result, incremented>>

NextGrammar == ParseAccountNumber \/ GetContactBillingInfo \/ CanSplitInvoices

SpecGrammar == InitGrammar /\ [][NextGrammar]_vars

----------------------------------------------------------------------------
(* Properties *)

Calculated == pc \in {"calculated", "create", "done"}
\* calculate_split returned a split
Accepted == Calculated /\ split_result.success
\* calculate_split got as far as the date validations
DatesReached == Calculated /\ billing_info.error = NoError /\ invoice.HasDate

VacateOutOfRange == vacate_date < period.start \/ vacate_date > period.end
MoveInOutOfRange == move_in_date < period.start \/ move_in_date > period.end

VacateRangeMsg == "Vacate date must be within invoice period"
MoveInRangeMsg == "Move-in date must be within invoice period"
OrderingMsg == "Move-in date must be after vacate date"

\* C1: for every accepted split the previous-occupier, void and new-occupier
\* day counts sum to total_days, and total_days is (end - start) + 1 of the
\* resolved period.
C1_DaysSumToTotal ==
    Accepted =>
        LET sc == split_result.split_calculation
        IN  /\ sc.previous_occupier.days + sc.void_period.days + sc.new_occupier.days
                   = split_result.invoice_details.total_days
            /\ split_result.invoice_details.total_days = (period.end - period.start) + 1

C1_Witness ==
    /\ Accepted
    /\ split_result.split_calculation.previous_occupier.days > 1
    /\ split_result.split_calculation.void_period.days > 0
    /\ split_result.split_calculation.new_occupier.days > 1

\* the quarter that starts on day d of month m of year y
QuarterOf(y, m, d) ==
    [start |-> Date(y, m, d),
     end |-> (IF m = 10 THEN Date(y + 1, 1, d) ELSE Date(y, m + 3, d)) - 1]

\* C2: for a quarterly schedule and every invoice date, the returned period
\* is the quarter anchored on start_day of January, April, July or October
\* that contains the invoice date.
C2_QuarterlyPeriodAnchored ==
    (pc = "period_done" /\ billing_info.frequency = "quarterly") =>
        \E y \in {Year(invoice.Date) - 1, Year(invoice.Date)}, m \in {1, 4, 7, 10} :
            /\ period = QuarterOf(y, m, billing_info.schedule.start_day)
            /\ period.start <= invoice.Date
            /\ invoice.Date <= period.end

\* C3: for a monthly schedule with start day 1, 16 or 23 the period starts on
\* the start day of the invoice's month (day >= start day) or of the previous
\* month (December of the previous year for January), ends the day before the
\* start day of the month after the period start, and contains the invoice date.
C3_MonthlyPeriod ==
    (/\ pc = "period_done"
     /\ billing_info.frequency = "monthly"
     /\ billing_info.schedule.start_day \in {1, 16, 23}) =>
        LET d   == billing_info.schedule.start_day
            inv == invoice.Date
            s   == period.start
            n   == period.end + 1
        IN  /\ Day(s) = d
            /\ IF Day(inv) >= d
               THEN Month(s) = Month(inv) /\ Year(s) = Year(inv)
               ELSE IF Month(inv) = 1
               THEN Month(s) = 12 /\ Year(s) = Year(inv) - 1
               ELSE Month(s) = Month(inv) - 1 /\ Year(s) = Year(inv)
            /\ Day(n) = d
            /\ IF Month(s) = 12
               THEN Month(n) = 1 /\ Year(n) = Year(s) + 1
               ELSE Month(n) = Month(s) + 1 /\ Year(n) = Year(s)
            /\ s <= inv
            /\ inv <= period.end

C3_Witness ==
    /\ pc = "period_done"
    /\ billing_info.frequency = "monthly"
    /\ Month(invoice.Date) = 1
    /\ Day(invoice.Date) < billing_info.schedule.start_day
    /\ Year(period.start) = Year(invoice.Date) - 1
    /\ Month(period.start) = 12

\* C4: for a quarterly schedule with start day d > 1 and an invoice date in
\* January before day d, the period returned is the previous year's October
\* quarter, reached by the anchor search and not by the fallback.
C4_JanuaryFallsToPreviousOctober ==
    (/\ pc = "period_done"
     /\ billing_info.frequency = "quarterly"
     /\ billing_info.schedule.start_day > 1
     /\ Month(invoice.Date) = 1
     /\ Day(invoice.Date) < billing_info.schedule.start_day) =>
        /\ period = QuarterOf(Year(invoice.Date) - 1, 10, billing_info.schedule.start_day)
        /\ log = {}

\* C5: the modify write is issued first and the create write only after the
\* modify write succeeded; a failed modify leaves no create write and no new
\* invoice; a failed create leaves the old invoice reduced, with no further
\* write, and no new invoice.
C5_ModifyThenCreate ==
    /\ \/ Len(writes) = 0
       \/ Len(writes) = 1 /\ writes[1].op = "modify"
       \/ /\ Len(writes) = 2
          /\ writes[1].op = "modify"
          /\ writes[2].op = "create"
          /\ store.old_reduced
    /\ store.new_created => (store.old_reduced /\ Len(writes) = 2)
    /\ (pc = "done" /\ exec_result.success = FALSE /\ split_result.success) =>
           /\ ~exec_result.modified_invoice =>
                  (Len(writes) <= 1 /\ ~store.old_reduced /\ ~store.new_created)
           /\ (exec_result.modified_invoice /\ ~exec_result.created_invoice) =>
                  (Len(writes) = 2 /\ store.old_reduced /\ ~store.new_created)

C5_Witness ==
    /\ pc = "done"
    /\ Len(writes) = 2
    /\ store.old_reduced
    /\ ~store.new_created
    /\ ~exec_result.success

\* C6: the date validations are made in the order vacate range, move-in
\* range, ordering; the failure returned is that of the first violated
\* constraint, and each failure message identifies its constraint.
C6_ValidationOrder ==
    DatesReached =>
        /\ VacateOutOfRange =>
               (~split_result.success /\ split_result.error.msg = VacateRangeMsg)
        /\ (~VacateOutOfRange /\ MoveInOutOfRange) =>
               (~split_result.success /\ split_result.error.msg = MoveInRangeMsg)
        /\ (~VacateOutOfRange /\ ~MoveInOutOfRange /\ move_in_date <= vacate_date) =>
               (~split_result.success /\ split_result.error.msg = OrderingMsg)
        /\ ~split_result.success =>
               /\ split_result.error.msg = VacateRangeMsg => VacateOutOfRange
               /\ split_result.error.msg = MoveInRangeMsg => MoveInOutOfRange
               /\ split_result.error.msg = OrderingMsg => move_in_date <= vacate_date
        /\ Cardinality({VacateRangeMsg, MoveInRangeMsg, OrderingMsg}) = 3

C6_Witness ==
    /\ DatesReached
    /\ VacateOutOfRange
    /\ ~MoveInOutOfRange
    /\ move_in_date <= vacate_date
    /\ split_result.error.msg = VacateRangeMsg

\* C7: with both dates inside the period, a move-in on or before the vacate
\* date fails with the ordering violation and the result carries no split;
\* a split is produced only for move-in after vacate, and its void days are
\* zero exactly when move-in is the day after vacate.
C7_OrderingViolation ==
    DatesReached =>
        /\ (~VacateOutOfRange /\ ~MoveInOutOfRange /\ move_in_date <= vacate_date) =>
               /\ ~split_result.success
               /\ split_result.error.msg = OrderingMsg
               /\ "split_calculation" \notin DOMAIN split_result
               /\ "invoice_details" \notin DOMAIN split_result
        /\ split_result.success =>
               /\ move_in_date > vacate_date
               /\ (split_result.split_calculation.void_period.days = 0)
                      <=> (move_in_date = vacate_date + 1)

C7_Witness ==
    /\ DatesReached
    /\ ~VacateOutOfRange
    /\ move_in_date = vacate_date
    /\ ~split_result.success
    /\ split_result.error.msg = OrderingMsg

\* the smallest number of tenths of a pound that is >= total * days / all_days
CeilTenths(total_pence, all_days, days) ==
    (total_pence * days + 10 * all_days - 1) \div (10 * all_days)

\* C8: each bucket amount is the smallest multiple of 0.10 that is >=
\* (invoice_total / total_days) * bucket.days, the rate not being rounded.
C8_BucketsRoundedUpTo10p ==
    Accepted =>
        LET sc == split_result.split_calculation
            n  == split_result.invoice_details.total_days
        IN  \A b \in {sc.previous_occupier, sc.void_period, sc.new_occupier} :
                b.amount = CeilTenths(invoice.Total, n, b.days)

\* C9: the three rounded amounts sum to at least invoice_total and to less
\* than invoice_total + 0.30.
C9_OverAllocationBelow30p ==
    Accepted =>
        LET sc  == split_result.split_calculation
            sum == 10 * (sc.previous_occupier.amount + sc.void_period.amount
                             + sc.new_occupier.amount)
        IN  /\ sum >= invoice.Total
            /\ sum - invoice.Total < 30

\* C10: incrementing a valid account number whose sequence digit is 9 returns
\* no account number.
C10_SequenceOverflowFails ==
    (/\ pc = "account_done"
     /\ parse_account_number(contact_data.AccountNumber).ok
     /\ parse_account_number(contact_data.AccountNumber).sequence_digit = <<"9">>) =>
        incremented = NoAccount


\* the except handler of calculate_invoice_period ran
FallbackTaken == "Error calculating invoice period" \in log

\* C11: for a schedule whose frequency is not monthly or quarterly,
\* calculate_invoice_period returns no period.
C11_UnsupportedFrequencyFails ==
    (pc = "period_done" /\ billing_info.frequency \notin {"monthly", "quarterly"}) =>
        period = NoPeriod

\* the month that starts on day d of month m of year y
MonthOf(y, m, d) ==
    [start |-> Date(y, m, d),
     end |-> (IF m = 12 THEN Date(y + 1, 1, d) ELSE Date(y, m + 1, d)) - 1]

\* an anchored period of the schedule contains the date
AnchorExists(invoice_date, info) ==
    \E y \in {Year(invoice_date) - 1, Year(invoice_date)} :
        \/ /\ info.frequency = "quarterly"
           /\ \E m \in {1, 4, 7, 10} :
                  /\ QuarterOf(y, m, info.schedule.start_day).start <= invoice_date
                  /\ invoice_date <= QuarterOf(y, m, info.schedule.start_day).end
        \/ /\ info.frequency = "monthly"
           /\ \E m \in 1..12 :
                  /\ MonthOf(y, m, info.schedule.start_day).start <= invoice_date
                  /\ invoice_date <= MonthOf(y, m, info.schedule.start_day).end

\* C12: the 90-day period starting at the invoice date is returned only when
\* no anchored period contains the invoice date, and the value returned then
\* differs from every normal resolution for that invoice date.
C12_FallbackDistinguishable ==
    (pc = "period_done" /\ FallbackTaken) =>
        /\ billing_info.frequency \in {"monthly", "quarterly"}
        /\ ~AnchorExists(invoice.Date, billing_info)
        /\ \A info \in PeriodInfos :
               PeriodBody(invoice.Date, info).raised
                   \/ calculate_invoice_period(invoice.Date, info) # period

\* C13: every period returned, on the normal path and on the fallback path,
\* contains the invoice date, so that end >= start and total_days >= 1.
C13_PeriodContainsInvoiceDate ==
    pc = "period_done" =>
        /\ period.start <= invoice.Date
        /\ invoice.Date <= period.end
        /\ period.end >= period.start
        /\ total_days(period) >= 1

C13_Witness ==
    /\ pc = "period_done"
    /\ FallbackTaken
    /\ billing_info.frequency = "quarterly"
    /\ period.start = invoice.Date
    /\ total_days(period) = 90


\* C14: execute_invoice_split reports success exactly when both writes
\* succeeded, and a failing result tells whether the old invoice was already
\* reduced (modified_invoice is True) or nothing was changed.
C14_FailurePhaseReported ==
    pc = "done" =>
        /\ exec_result.success <=> (store.old_reduced /\ store.new_created)
        /\ ~exec_result.success =>
               /\ ~store.new_created
               /\ store.old_reduced <=>
                      ("modified_invoice" \in DOMAIN exec_result
                           /\ exec_result.modified_invoice)

C14_Witness ==
    /\ pc = "done"
    /\ "modified_invoice" \in DOMAIN exec_result
    /\ ~exec_result.modified_invoice
    /\ Len(writes) = 1
    /\ store = EmptyStore

----------------------------------------------------------------------------
(* C15: modify_existing_invoice and create_new_invoice scale every line    *)
(* item by new_amount / Total: the written LineAmount is the source        *)
(* LineAmount times that factor rounded to 2 decimal places, the written   *)
(* UnitAmount is the written LineAmount over Quantity rounded to 2 decimal *)
(* places, and requests for the same amount carry the same LineAmount and  *)
(* UnitAmount on every line.                                               *)

Abs(n) == IF n < 0 THEN 0 - n ELSE n

\* out (pence) is source (pence) * amount (tenths of a pound) / total (pence)
\* to the nearest penny
ScaledToPenny(out, source, amount, total) ==
    Abs(2 * out * total - 20 * source * amount) <= total

\* out (pence) is amount (pence) / quantity to the nearest penny
DividedToPenny(out, amount, quantity) ==
    Abs(2 * out * quantity - 2 * amount) <= quantity

C15_SameScalingRule ==
    /\ \A i \in 1..Len(writes) : \A k \in 1..Len(writes[i].LineItems) :
           LET source  == LineItemsOf(invoice)[k]
               written == writes[i].LineItems[k]
           IN  /\ ScaledToPenny(written.LineAmount, source.LineAmount,
                                writes[i].amount, invoice.Total)
               /\ DividedToPenny(written.UnitAmount, written.LineAmount,
                                 source.Quantity)
    /\ \A i, j \in 1..Len(writes) :
           writes[i].amount = writes[j].amount =>
               /\ Len(writes[i].LineItems) = Len(writes[j].LineItems)
               /\ \A k \in 1..Len(writes[i].LineItems) :
                      /\ writes[i].LineItems[k].LineAmount
                             = writes[j].LineItems[k].LineAmount
                      /\ writes[i].LineItems[k].UnitAmount
                             = writes[j].LineItems[k].UnitAmount

\* both requests sent for the same amount, on lines whose quantity is not 1
C15_Witness ==
    /\ Len(writes) = 2
    /\ writes[1].op = "modify" /\ writes[2].op = "create"
    /\ writes[1].amount = writes[2].amount
    /\ writes[1].amount > 0
    /\ Len(writes[2].LineItems) >= 2
    /\ writes[2].LineItems[1].Quantity > 1
    /\ writes[2].LineItems[1].UnitAmount # writes[2].LineItems[1].LineAmount

----------------------------------------------------------------------------
(* C16: every written line-item set has the lines of the source invoice in *)
(* the same number and order; each written line keeps the AccountCode,     *)
(* TaxType and Quantity of its source line; and each of ItemCode,          *)
(* TaxAmount, DiscountRate and Tracking is on the written line exactly     *)
(* when the source line has it with a non-empty value, and then with the   *)
(* source value.                                                           *)

\* the empty values: a string or a list can be empty, a number cannot
EmptyValue == [ItemCode |-> "", Tracking |-> <<>>]

PresentNonEmpty(line_item, field) ==
    /\ field \in DOMAIN line_item
    /\ field \in DOMAIN EmptyValue => line_item[field] # EmptyValue[field]

C16_LineItemsCarried ==
    \A i \in 1..Len(writes) :
        /\ Len(writes[i].LineItems) = Len(LineItemsOf(invoice))
        /\ \A k \in 1..Len(writes[i].LineItems) :
               LET source  == LineItemsOf(invoice)[k]
                   written == writes[i].LineItems[k]
               IN  /\ written.AccountCode = source.AccountCode
                   /\ written.TaxType = source.TaxType
                   /\ written.Quantity = source.Quantity
                   /\ \A field \in {"ItemCode", "TaxAmount", "DiscountRate", "Tracking"} :
                          /\ field \in DOMAIN written <=> PresentNonEmpty(source, field)
                          /\ field \in DOMAIN written => written[field] = source[field]

----------------------------------------------------------------------------
(* C17: when the account number of the contact does not match the grammar  *)
(* (three uppercase letters, five digits, one digit, '/' and one or two    *)
(* uppercase letters or digits), or its contact code is not in the         *)
(* schedule table, calculate_split fails with an error naming the account  *)
(* number or the contact code, resolves no period and computes no          *)
(* allocation.                                                             *)

MatchesGrammar(s) ==
    /\ Len(s) \in {11, 12}
    /\ \A i \in 1..3 : s[i] \in Upper
    /\ \A i \in 4..9 : s[i] \in Digit
    /\ s[10] = "/"
    /\ \A i \in 11..Len(s) : s[i] \in (Upper \cup Digit)

C17_UnknownScheduleFails ==
    LET account_number == contact_data.AccountNumber
    IN  (/\ Calculated
         /\ \/ ~MatchesGrammar(account_number)
            \/ parse_account_number(account_number).contact_code
                   \notin DOMAIN SplitterSchedules)
        => /\ ~split_result.success
           /\ DOMAIN split_result = {"success", "error"}
           /\ \/ split_result.error = [msg |-> "Cannot parse account number",
                                       args |-> <<account_number>>]
              \/ split_result.error =
                     [msg |-> "Unknown contact code",
                      args |-> <<parse_account_number(account_number).contact_code>>]
           /\ period = NoPeriod

----------------------------------------------------------------------------
(* C18: for every contact code of CONTACT_CODES the splitter resolves a    *)
(* schedule exactly when BILLING_SCHEDULES gives the code a monthly or     *)
(* quarterly frequency with start_day and period_days present, which is    *)
(* when can_split_invoices is true; and for those codes the two tables     *)
(* give the same frequency and the same start_day.                         *)

C18_TablesAgree ==
    (pc = "grammar_done" /\ parsed_account.contact_code \in CONTACT_CODES) =>
        LET schedule == BILLING_SCHEDULES[parsed_account.contact_code]
        IN  /\ can_split <=> /\ schedule.frequency \in {"monthly", "quarterly"}
                             /\ schedule.start_day # 0
                             /\ schedule.period_days # 0
            /\ billing_info.error = NoError <=> can_split
            /\ can_split =>
                   /\ billing_info.frequency = schedule.frequency
                   /\ billing_info.schedule.start_day = schedule.start_day

----------------------------------------------------------------------------
(* C19: parse_account_number accepts a string exactly when it is three     *)
(* uppercase letters, five digits, one digit, '/' and one or two uppercase *)
(* letters or digits; every other string yields the invalid-format result  *)
(* with no partial parse.                                                  *)

AccountParsed == pc \in {"parsed_account", "billing_info", "grammar_done"}

C19_GrammarAccepted ==
    AccountParsed =>
        /\ parsed_account.ok <=> MatchesGrammar(contact_data.AccountNumber)
        /\ ~MatchesGrammar(contact_data.AccountNumber) => parsed_account = NotParsed

----------------------------------------------------------------------------
(* C20: for every string accepted by parse_account_number, the property    *)
(* base, the sequence digit and the contact code concatenated in that      *)
(* order are the string itself, and parsing the concatenation returns the  *)
(* same three parts.                                                       *)

C20_ParseRoundTrip ==
    (AccountParsed /\ parsed_account.ok) =>
        LET joined == parsed_account.base_code \o parsed_account.sequence_digit \o parsed_account.contact_code
        IN  /\ joined = contact_data.AccountNumber
            /\ parse_account_number(joined) = parsed_account

----------------------------------------------------------------------------
(* C21: every account number returned by increment_account_sequence for a  *)
(* valid account number is itself accepted by parse_account_number, with   *)
(* the same property base, the same contact code and a sequence digit one  *)
(* greater, and its text before '/' is a 9-character base account.         *)

C21_IncrementStaysValid ==
    (/\ pc = "account_done"
     /\ MatchesGrammar(contact_data.AccountNumber)
     /\ incremented.ok) =>
        LET before == parse_account_number(contact_data.AccountNumber)
            after  == parse_account_number(incremented.value)
        IN  /\ after.ok
            /\ after.base_code = before.base_code
            /\ after.contact_code = before.contact_code
            /\ StrToInt(after.sequence_digit) = StrToInt(before.sequence_digit) + 1
            /\ Len(incremented.value) > 9
            /\ incremented.value[10] = "/"

----------------------------------------------------------------------------
(* C27: when the line amounts of the invoice sum to its Total, the line    *)
(* amounts written by modify_existing_invoice and by create_new_invoice    *)
(* sum to exactly the new amount.                                          *)

RECURSIVE SumLineAmounts(_)
SumLineAmounts(line_items) ==
    IF Len(line_items) = 0 THEN 0
    ELSE line_items[1].LineAmount + SumLineAmounts(Tail(line_items))

C27_LinesSumToNewAmount ==
    SumLineAmounts(LineItemsOf(invoice)) = invoice.Total =>
        \A i \in 1..Len(writes) :
            SumLineAmounts(writes[i].LineItems) = 10 * writes[i].amount

----------------------------------------------------------------------------
(* Reading a contact's invoices: XeroInvoiceSplitter.get_latest_unpaid_invoice
   and XeroInvoiceManager.search_invoices_by_contact_and_date.  store holds
   what the invoice store answers: the status of the list request, the
   invoices in the order of the answer (newest first), and the status of the
   request for the details of one invoice *)

MaxInvoices == 3

\* 'DateString' of an invoice: an empty text, a text in another format, or
\* year, month and day in ISO format followed by a time of day
EmptyDateString == [text |-> ""]
OtherDateString == [text |-> "20/02/2025"]
DateString(y, m, d, time) == [y |-> y, m |-> m, d |-> d, time |-> time]

\* invoice.get('DateString', '')
DateStringOf(inv) ==
    IF "DateString" \in DOMAIN inv THEN inv.DateString ELSE EmptyDateString

\* datetime.fromisoformat(s.replace('T00:00:00', '')).date(): the ordinal of
\* the date, or a ValueError
NoDate == [ok |-> FALSE, date |-> 0]
ParseDateString(s) ==
    IF "y" \notin DOMAIN s THEN NoDate
    ELSE IF ~DateOK(s.y, s.m, s.d) THEN NoDate
    ELSE [ok |-> TRUE, date |-> Date(s.y, s.m, s.d)]

\* float(invoice.get('AmountDue', 0)), in pence
AmountDueOf(inv) == IF "AmountDue" \in DOMAIN inv THEN inv.AmountDue ELSE 0

NoneFound == [found |-> FALSE]
Found(inv) == [found |-> TRUE, invoice |-> inv]

\* get_invoice_details(invoice_id): the invoice with its line items, or None
get_invoice_details(inv, status) ==
    IF status = 200 THEN Found(inv @@ [LineItems |-> <<>>]) ELSE NoneFound

\* the loop over the invoices of the answer, from position i on
RECURSIVE FirstUnpaid(_, _, _)
FirstUnpaid(invoices, i, details_status) ==
    IF i > Len(invoices) THEN NoneFound
    ELSE IF AmountDueOf(invoices[i]) > 0
    THEN LET detailed_invoice == get_invoice_details(invoices[i], details_status)
         IN  IF detailed_invoice.found THEN detailed_invoice ELSE Found(invoices[i])
    ELSE FirstUnpaid(invoices, i + 1, details_status)

\* get_latest_unpaid_invoice returning the newest invoice whatever is due
get_latest_unpaid_invoice_newest(answer) ==
    IF answer.status = 200 /\ Len(answer.Invoices) > 0
    THEN Found(answer.Invoices[1])
    ELSE NoneFound

get_latest_unpaid_invoice(answer) ==
    IF answer.status = 200
    THEN FirstUnpaid(answer.Invoices, 1, answer.details_status)
    ELSE NoneFound

\* the date filter of search_invoices_by_contact_and_date
IsIncluded(inv, move_in) ==
    /\ DateStringOf(inv) # EmptyDateString
    /\ ParseDateString(DateStringOf(inv)).ok
    /\ ParseDateString(DateStringOf(inv)).date >= move_in

search_invoices_by_contact_and_date(answer, move_in) ==
    IF answer.status = 200
    THEN SelectSeq(answer.Invoices, LAMBDA inv : IsIncluded(inv, move_in))
    ELSE <<>>

\* the move-in date of the searches, and the invoices a store may hold
SearchMoveIn == Date(BaseYear + 1, 2, 16)

AmountDueKinds ==
    { [DateString |-> DateString(BaseYear + 1, 2, 20, "T00:00:00")] }
    \cup { [AmountDue |-> a, DateString |-> DateString(BaseYear + 1, 2, 20, "T00:00:00")] :
              a \in {0, 0 - 500, 1250} }

DateStringKinds ==
    { [AmountDue |-> 1250] , [AmountDue |-> 1250, DateString |-> EmptyDateString] }
    \cup { [AmountDue |-> 1250, DateString |-> s] :
              s \in { DateString(BaseYear + 1, 2, 15, "T00:00:00"),
                      DateString(BaseYear + 1, 2, 16, "T00:00:00"),
                      DateString(BaseYear + 1, 2, 17, "T09:30:00"),
                      DateString(BaseYear + 1, 2, 30, "T00:00:00"),
                      OtherDateString } }

InvoiceKinds == AmountDueKinds \cup DateStringKinds

\* the answers with n invoices, InvoiceID being the position in the answer
InvoiceLists(n) ==
    { [i \in 1..n |-> kinds[i] @@ [InvoiceID |-> i]] : kinds \in [1..n -> InvoiceKinds] }

InvoiceAnswers ==
    { [status |-> s, Invoices |-> l, details_status |-> d] :
        s \in {200, 500}, d \in {200, 404},
        l \in UNION { InvoiceLists(n) : n \in 0..MaxInvoices } }

InitInvoices ==
    /\ pc = "invoices_input"
    /\ store \in InvoiceAnswers
    /\ move_in_date = SearchMoveIn
    /\ contact_data = NoContact
    /\ invoice = NoInvoice
    /\ vacate_date = 0
    /\ billing_info = NoInfo
    /\ period = NoPeriod
    /\ log = {}
    /\ split_result = NotRun
    /\ writes = <<>>
    /\ exec_result = NotRun
    /\ incremented = NoAccount
    /\ parsed_account = NotParsed
    /\ can_split = FALSE

\* get_latest_unpaid_invoice(contact_id)
GetLatestUnpaidInvoice ==
    /\ pc = "invoices_input"
    /\ exec_result' = get_latest_unpaid_invoice(store)
    /\ pc' = "latest_unpaid"
    /\ UNCHANGED <<parsed_account, can_split, contact_data, invoice, vacate_date,
                   move_in_date, billing_info, period, log, split_result, store,
                   writes, incremented>>

\* search_invoices_by_contact_and_date(contact_id, move_in_date)
SearchInvoicesByContactAndDate ==
    /\ pc = "invoices_input"
    /\ exec_result' = search_invoices_by_contact_and_date(store, move_in_date)
    /\ pc' = "invoices_searched"
    /\ UNCHANGED <<parsed_account, can_split, contact_data, invoice, vacate_date,
                   move_in_date, billing_info, period, log, split_result, store,
                   writes, incremented>>

NextInvoices == GetLatestUnpaidInvoice \/ SearchInvoicesByContactAndDate

SpecInvoices == InitInvoices /\ [][NextInvoices]_vars

(* C22: get_latest_unpaid_invoice returns the first invoice of the answer,
   in the newest-first order of the store, whose amount due is greater than
   zero, every earlier invoice having an amount due of zero or less, and it
   returns no invoice when no invoice of the answer has an amount due
   greater than zero *)
Unpaid(answer) ==
    { i \in 1..Len(answer.Invoices) :
        "AmountDue" \in DOMAIN answer.Invoices[i] /\ answer.Invoices[i].AmountDue > 0 }

C22_FirstUnpaidReturned ==
    (pc = "latest_unpaid" /\ store.status = 200) =>
        IF Unpaid(store) = {} THEN ~exec_result.found
        ELSE /\ exec_result.found
             /\ exec_result.invoice.InvoiceID \in Unpaid(store)
             /\ \A i \in Unpaid(store) : exec_result.invoice.InvoiceID <= i

C22_Witness ==
    /\ pc = "latest_unpaid"
    /\ store.status = 200
    /\ exec_result.found
    /\ exec_result.invoice.InvoiceID = 2
    /\ Cardinality(Unpaid(store)) = 2

(* C26: search_invoices_by_contact_and_date returns exactly the invoices of
   the answer whose issue date is later than the move-in date, in the order
   of the answer; an invoice dated on or before the move-in date, or without
   a date that can be read, is not returned *)
IssuedAfter(inv, move_in) ==
    /\ "DateString" \in DOMAIN inv
    /\ "y" \in DOMAIN inv.DateString
    /\ DateOK(inv.DateString.y, inv.DateString.m, inv.DateString.d)
    /\ Date(inv.DateString.y, inv.DateString.m, inv.DateString.d) > move_in

C26_IssuedAfterMoveIn ==
    (pc = "invoices_searched" /\ store.status = 200) =>
        exec_result = SelectSeq(store.Invoices, LAMBDA inv : IssuedAfter(inv, move_in_date))

----------------------------------------------------------------------------
(* XeroInvoiceManager.reassign_repeating_invoice_template: the template of
   the old contact is searched, a copy is created for the new contact, and
   the old template is deleted.  store holds the repeating invoices of the
   organisation, the status of the list request and what the contact request
   tells about the e-mail address of the new contact; writes holds the
   requests issued, each with its outcome *)

MaxTemplates == 2

NoTemplate == [RepeatingInvoiceID |-> 0]

TemplateKinds ==
    { [ContactID |-> c, Status |-> s] :
        c \in {"old", "other"}, s \in {"DRAFT", "AUTHORISED", "DELETED"} }

TemplateLists(n) ==
    { [i \in 1..n |-> kinds[i] @@ [RepeatingInvoiceID |-> i]] :
        kinds \in [1..n -> TemplateKinds] }

TemplateStores ==
    { [status |-> s, RepeatingInvoices |-> l, email |-> e] :
        s \in {200, 500}, e \in {"address", "", "unavailable"},
        l \in UNION { TemplateLists(n) : n \in 0..MaxTemplates } }

\* search_repeating_invoices_by_contact(contact_id)
search_repeating_invoices_by_contact(answer, contact_id) ==
    IF answer.status = 200
    THEN SelectSeq(answer.RepeatingInvoices,
                   LAMBDA t : t.ContactID = contact_id /\ t.Status # "DELETED")
    ELSE <<>>

\* the payload of create_repeating_invoice_template: the copy keeps the
\* status of the template and is approved for sending when the new contact
\* has an e-mail address, and is AUTHORISED and not approved otherwise
new_template(template_data, new_contact_id, email) ==
    IF email = "address"
    THEN [ContactID |-> new_contact_id, Status |-> template_data.Status,
          ApprovedForSending |-> TRUE]
    ELSE [ContactID |-> new_contact_id, Status |-> "AUTHORISED",
          ApprovedForSending |-> FALSE]

ReassignResult(found, created, deleted, error) ==
    [success |-> deleted, found_template |-> found,
     deleted_successfully |-> deleted, created_template |-> created,
     error |-> error]

InitTemplates ==
    /\ pc = "template_input"
    /\ store \in TemplateStores
    /\ move_in_date = 0
    /\ contact_data = NoContact
    /\ invoice = NoInvoice
    /\ vacate_date = 0
    /\ billing_info = NoInfo
    /\ period = NoPeriod
    /\ log = {}
    /\ split_result = NotRun
    /\ writes = <<>>
    /\ exec_result = NotRun
    /\ incremented = NoAccount
    /\ parsed_account = NotParsed
    /\ can_split = FALSE

\* step 1: find the template of the old contact
SearchRepeatingInvoices ==
    /\ pc = "template_input"
    /\ LET templates == search_repeating_invoices_by_contact(store, "old")
       IN  IF Len(templates) = 0
           THEN /\ exec_result' = ReassignResult(NoTemplate, NoTemplate, FALSE,
                       "No repeating invoice templates found for old contact")
                /\ pc' = "template_done"
           ELSE /\ exec_result' = ReassignResult(templates[1], NoTemplate, FALSE, "None")
                /\ pc' = "template_found"
    /\ UNCHANGED <<parsed_account, can_split, contact_data, invoice, vacate_date,
                   move_in_date, billing_info, period, log, split_result, store,
                   writes, incremented>>

\* CreateRepeatingInvoiceTemplate going on to the delete request whatever
\* the answer to the create request
CreateRepeatingInvoiceTemplate_continues(response) ==
    /\ pc = "template_found"
    /\ LET payload == new_template(exec_result.found_template, "new", store.email)
           created == payload @@
                        [RepeatingInvoiceID |-> Len(store.RepeatingInvoices) + 1]
       IN  /\ writes' = Append(writes, [op |-> "create", ok |-> response = "ok",
                                        template |-> payload])
           /\ IF response = "ok"
              THEN /\ store' = [store EXCEPT !.RepeatingInvoices = Append(@, created)]
                   /\ exec_result' = [exec_result EXCEPT !.created_template = created]
              ELSE UNCHANGED <<store, exec_result>>
           /\ pc' = "template_created"
    /\ UNCHANGED <<parsed_account, can_split, contact_data, invoice, vacate_date,
                   move_in_date, billing_info, period, log, split_result,
                   incremented>>

\* step 2: create the template of the new contact; without a created
\* template the function returns
CreateRepeatingInvoiceTemplate(response) ==
    /\ pc = "template_found"
    /\ LET payload == new_template(exec_result.found_template, "new", store.email)
           created == payload @@
                        [RepeatingInvoiceID |-> Len(store.RepeatingInvoices) + 1]
       IN  /\ writes' = Append(writes, [op |-> "create", ok |-> response = "ok",
                                        template |-> payload])
           /\ IF response = "ok"
              THEN /\ store' = [store EXCEPT !.RepeatingInvoices = Append(@, created)]
                   /\ exec_result' = [exec_result EXCEPT !.created_template = created]
                   /\ pc' = "template_created"
              ELSE /\ UNCHANGED store
                   /\ exec_result' = [exec_result EXCEPT !.error =
                           "Failed to create new repeating invoice template"]
                   /\ pc' = "template_done"
    /\ UNCHANGED <<parsed_account, can_split, contact_data, invoice, vacate_date,
                   move_in_date, billing_info, period, log, split_result,
                   incremented>>

\* step 3: delete the template of the old contact and return
DeleteRepeatingInvoiceTemplate(response) ==
    /\ pc = "template_created"
    /\ LET template_id == exec_result.found_template.RepeatingInvoiceID
       IN  /\ writes' = Append(writes, [op |-> "delete", ok |-> response = "ok",
                                        template |-> [RepeatingInvoiceID |-> template_id,
                                                      Status |-> "DELETED"]])
           /\ IF response = "ok"
              THEN /\ store' = [store EXCEPT
                                  !.RepeatingInvoices[template_id].Status = "DELETED"]
                   /\ exec_result' = [exec_result EXCEPT !.deleted_successfully = TRUE,
                                                         !.success = TRUE]
              ELSE /\ UNCHANGED store
                   /\ exec_result' = [exec_result EXCEPT !.error =
                           "New template created but failed to delete old template"]
    /\ pc' = "template_done"
    /\ UNCHANGED <<parsed_account, can_split, contact_data, invoice, vacate_date,
                   move_in_date, billing_info, period, log, split_result,
                   incremented>>

NextTemplates ==
    \/ SearchRepeatingInvoices
    \/ \E response \in Responses : CreateRepeatingInvoiceTemplate(response)
    \/ \E response \in Responses : DeleteRepeatingInvoiceTemplate(response)

SpecTemplates == InitTemplates /\ [][NextTemplates]_vars

(* C23: in every execution of reassign_repeating_invoice_template a delete
   request is issued only after a create request that succeeded, so once the
   old template is deleted a template of the new contact exists; a failed
   creation is followed by no delete request; and success is reported
   exactly when both the creation and the deletion succeeded *)
Succeeded(op) == \E i \in 1..Len(writes) : writes[i].op = op /\ writes[i].ok

OldTemplateDeleted ==
    /\ pc \in {"template_found", "template_created", "template_done"}
    /\ exec_result.found_template # NoTemplate
    /\ store.RepeatingInvoices[exec_result.found_template.RepeatingInvoiceID].Status
           = "DELETED"

NewTemplateExists ==
    \E i \in 1..Len(store.RepeatingInvoices) :
        /\ store.RepeatingInvoices[i].ContactID = "new"
        /\ i > exec_result.found_template.RepeatingInvoiceID

----------------------------------------------------------------------------
(* XeroPreviousContactManager.handle_previous_contact_workflow and, as its
   sixth step, update_contact_to_previous_status.  store holds the contact as
   the organisation keeps it (account number, status, outstanding balance in
   pence, contact groups), the status of the balance request and the names of
   the contact groups of the organisation; contact_data is the contact as
   get_contact_balance read it; writes holds the requests issued *)

PreviousGroup == "+ Previous accounts still due"

Previous == <<"/", "P">>

\* the contact update requests in the order the code tries them: four with
\* account number and status, one with the account number alone and one,
\* sent only after that one succeeded, with the status alone
FullUpdate(account, status) == [AccountNumber |-> account, ContactStatus |-> status]
AccountUpdate(account) == [AccountNumber |-> account]
StatusUpdate(status) == [ContactStatus |-> status]

UpdateRequest(approach, fields, response) ==
    [op |-> "update_contact", approach |-> approach, fields |-> fields,
     ok |-> response = "ok"]

\* the requests of approaches k..4, up to the first that succeeds
RECURSIVE FullAttempts(_, _, _)
FullAttempts(k, fields, responses) ==
    IF k > 4 THEN <<>>
    ELSE IF responses[k] = "ok" THEN <<UpdateRequest(k, fields, "ok")>>
    ELSE <<UpdateRequest(k, fields, "error")>> \o FullAttempts(k + 1, fields, responses)

NotUpdated == [value |-> FALSE, requests |-> <<>>]

\* update_contact_to_previous_status(contact_id, contact_data, has_balance):
\* the value returned and the requests issued, responses[k] being the answer
\* the k-th request would get
update_contact_to_previous_status(contact, has_balance, responses) ==
    LET parsed == parse_account_number(contact.AccountNumber)
    IN  IF ~parsed.ok THEN NotUpdated
        ELSE LET new_account_number == parsed.base_code \o parsed.sequence_digit \o Previous
                 new_status == IF has_balance THEN "ACTIVE" ELSE "INACTIVE"
                 full == FullAttempts(1, FullUpdate(new_account_number, new_status),
                                      responses)
             IN  IF full[Len(full)].ok THEN [value |-> TRUE, requests |-> full]
                 ELSE IF responses[5] = "ok"
                 THEN [value |-> TRUE,
                       requests |-> full
                           \o <<UpdateRequest(5, AccountUpdate(new_account_number), "ok"),
                                UpdateRequest(6, StatusUpdate(new_status), responses[6])>>]
                 ELSE [value |-> FALSE,
                       requests |-> Append(full,
                           UpdateRequest(5, AccountUpdate(new_account_number), "error"))]

\* the contact after the requests that succeeded
RECURSIVE Updated(_, _)
Updated(contact, requests) ==
    IF Len(requests) = 0 THEN contact
    ELSE Updated(IF requests[1].ok THEN requests[1].fields @@ contact ELSE contact,
                 Tail(requests))

\* the value of result['success'] and result['error'] at the end
WorkflowOutcome(result) ==
    IF result.added_to_previous_group \/
       (result.contact_updated /\ Len(result.groups_removed) > 0)
    THEN [result EXCEPT !.success = TRUE]
    ELSE [result EXCEPT !.error =
              "Critical operations failed - both group assignment and contact update failed"]

WorkflowResult ==
    [success |-> FALSE, has_balance |-> FALSE, groups_removed |-> <<>>,
     added_to_previous_group |-> FALSE, contact_updated |-> FALSE, error |-> "None"]

PreviousAccounts ==
    { AccountNumberOf(<<"A", "B", "C", "0", "0", "1", "2", "3">>, 4, <<"/", "3", "B">>),
      AccountNumberOf(<<"A", "B", "C", "0", "0", "1", "2", "3">>, 4, Previous),
      <<"A", "B", "C", "1", "2", "3">> }

PreviousContacts ==
    { [AccountNumber |-> a, ContactStatus |-> "ACTIVE", Outstanding |-> o,
       ContactGroups |-> g] :
        a \in PreviousAccounts, o \in {0, 1250},
        g \in {<<>>, <<"ABC001">>, <<"ABC001", "Direct debit">>} }

PreviousStores ==
    { [status |-> s, contact |-> c, groups |-> g] :
        s \in {200, 500}, c \in PreviousContacts,
        g \in {{"ABC001", "Direct debit"}, {"ABC001", "Direct debit", PreviousGroup}} }

InitPrevious ==
    /\ pc = "previous_input"
    /\ store \in PreviousStores
    /\ contact_data = NoContact
    /\ move_in_date = 0
    /\ invoice = NoInvoice
    /\ vacate_date = 0
    /\ billing_info = NoInfo
    /\ period = NoPeriod
    /\ log = {}
    /\ split_result = NotRun
    /\ writes = <<>>
    /\ exec_result = NotRun
    /\ incremented = NoAccount
    /\ parsed_account = NotParsed
    /\ can_split = FALSE

\* step 1: get_contact_balance(old_contact_id)
GetContactBalance ==
    /\ pc = "previous_input"
    /\ IF store.status = 200
       THEN /\ contact_data' = store.contact
            /\ exec_result' = [WorkflowResult EXCEPT
                                  !.has_balance = store.contact.Outstanding # 0]
            /\ pc' = "balance"
       ELSE /\ exec_result' = [WorkflowResult EXCEPT
                                  !.error = "Failed to get contact balance"]
            /\ pc' = "previous_done"
            /\ UNCHANGED contact_data
    /\ UNCHANGED <<parsed_account, can_split, invoice, vacate_date, move_in_date,
                   billing_info, period, log, split_result, store, writes,
                   incremented>>

\* the groups of removals that succeeded, in the order of current_groups
RemovedGroups(current_groups, responses) ==
    SelectSeq([i \in 1..Len(current_groups) |->
                   [name |-> current_groups[i], ok |-> responses[i] = "ok"]],
              LAMBDA g : g.ok)

\* steps 2 and 3: get_contact_groups_for_contact, then
\* remove_contact_from_group for every group of the answer
RemoveFromCurrentGroups(groups_status, responses) ==
    /\ pc = "balance"
    /\ LET current_groups == IF groups_status = 200 THEN store.contact.ContactGroups
                             ELSE <<>>
           removed == RemovedGroups(current_groups, responses)
           removed_groups == [i \in 1..Len(removed) |-> removed[i].name]
       IN  /\ writes' = writes \o
                  [i \in 1..Len(current_groups) |->
                      [op |-> "remove_from_group", group |-> current_groups[i],
                       ok |-> responses[i] = "ok"]]
           /\ store' = [store EXCEPT !.contact.ContactGroups =
                  SelectSeq(@, LAMBDA g : \A i \in 1..Len(removed_groups) :
                                              removed_groups[i] # g)]
           /\ exec_result' = [exec_result EXCEPT !.groups_removed = removed_groups]
    /\ pc' = "groups_removed"
    /\ UNCHANGED <<parsed_account, can_split, contact_data, invoice, vacate_date,
                   move_in_date, billing_info, period, log, split_result,
                   incremented>>

\* step 4: find_previous_accounts_group()
FindPreviousAccountsGroup(groups_status) ==
    /\ pc = "groups_removed"
    /\ IF groups_status = 200 /\ PreviousGroup \in store.groups
       THEN /\ pc' = "group_found"
            /\ UNCHANGED exec_result
       ELSE /\ exec_result' = [exec_result EXCEPT
                                  !.error = "'+ Previous accounts still due' group not found"]
            /\ pc' = "previous_done"
    /\ UNCHANGED <<parsed_account, can_split, contact_data, invoice, vacate_date,
                   move_in_date, billing_info, period, log, split_result, store,
                   writes, incremented>>

\* step 5: add_contact_to_group(old_contact_id, group_id)
AddContactToGroup(response) ==
    /\ pc = "group_found"
    /\ writes' = Append(writes, [op |-> "add_to_group", group |-> PreviousGroup,
                                 ok |-> response = "ok"])
    /\ IF response = "ok"
       THEN /\ store' = [store EXCEPT !.contact.ContactGroups = Append(@, PreviousGroup)]
            /\ exec_result' = [exec_result EXCEPT !.added_to_previous_group = TRUE]
       ELSE UNCHANGED <<store, exec_result>>
    /\ pc' = "group_added"
    /\ UNCHANGED <<parsed_account, can_split, contact_data, invoice, vacate_date,
                   move_in_date, billing_info, period, log, split_result,
                   incremented>>

\* step 6: update_contact_to_previous_status(old_contact_id, contact_data,
\* has_balance), then the overall outcome
UpdateContactToPreviousStatus(responses) ==
    /\ pc = "group_added"
    /\ LET updated == update_contact_to_previous_status(contact_data,
                          exec_result.has_balance, responses)
       IN  /\ writes' = writes \o updated.requests
           /\ store' = [store EXCEPT !.contact = Updated(@, updated.requests)]
           /\ exec_result' = WorkflowOutcome(
                  [exec_result EXCEPT !.contact_updated = updated.value])
    /\ pc' = "previous_done"
    /\ UNCHANGED <<parsed_account, can_split, contact_data, invoice, vacate_date,
                   move_in_date, billing_info, period, log, split_result,
                   incremented>>

NextPrevious ==
    \/ GetContactBalance
    \/ \E groups_status \in {200, 500}, responses \in [1..2 -> Responses] :
           RemoveFromCurrentGroups(groups_status, responses)
    \/ \E groups_status \in {200, 500} : FindPreviousAccountsGroup(groups_status)
    \/ \E response \in Responses : AddContactToGroup(response)
    \/ \E responses \in [1..6 -> Responses] : UpdateContactToPreviousStatus(responses)

SpecPrevious == InitPrevious /\ [][NextPrevious]_vars

UpdateRequests == SelectSeq(writes, LAMBDA w : w.op = "update_contact")

(* C24: whenever update_contact_to_previous_status has returned True, the
   account number of the contact is property base + sequence digit + '/P'
   and its status is ACTIVE when it has an outstanding balance and INACTIVE
   when its balance is zero; when the account number cannot be parsed it
   has returned False and no update request was issued *)
C24_PreviousStatusApplied ==
    pc = "previous_done" /\ contact_data # NoContact /\ store.status = 200 =>
        LET parsed == parse_account_number(contact_data.AccountNumber)
        IN  /\ exec_result.contact_updated =>
                /\ parsed.ok
                /\ store.contact.AccountNumber =
                       parsed.base_code \o parsed.sequence_digit \o Previous
                /\ store.contact.ContactStatus =
                       (IF contact_data.Outstanding # 0 THEN "ACTIVE" ELSE "INACTIVE")
            /\ ~parsed.ok =>
                /\ ~exec_result.contact_updated
                /\ UpdateRequests = <<>>

(* C30: when handle_previous_contact_workflow ends with the error that the
   '+ Previous accounts still due' group was not found, the contact is still
   in every contact group it was in, and its account number and status are
   unchanged *)
C30_MissingGroupLeavesContact ==
    (/\ pc = "previous_done"
     /\ exec_result.error = "'+ Previous accounts still due' group not found") =>
        /\ store.contact.ContactGroups = contact_data.ContactGroups
        /\ store.contact.AccountNumber = contact_data.AccountNumber
        /\ store.contact.ContactStatus = contact_data.ContactStatus

----------------------------------------------------------------------------
(* XeroContactManager: search_contact_by_account_number,
   validate_contact_before_creation with find_next_available_contact, and
   create_new_contact.  store holds the contacts of the organisation in the
   order of their creation, the status its read requests are answered with,
   and whether a contact group exists for the property; contact_data is the
   latest contact of the property, the one new contacts are created from;
   exec_result is what the last call returned *)

MaxCreations == 3
DefaultMaxAttempts == 50

\* the characters of account numbers in the order of their code points
CodePointOrder ==
    <<"/", "0", "1", "2", "3", "4", "5", "6", "7", "8", "9",
      "A", "B", "C", "D", "E", "F", "G", "H", "I", "J", "K", "L", "M",
      "N", "O", "P", "Q", "R", "S", "T", "U", "V", "W", "X", "Y", "Z">>

CodePoint(c) == CHOOSE i \in 1..Len(CodePointOrder) : CodePointOrder[i] = c

\* a < b for two strings
RECURSIVE StrLess(_, _)
StrLess(a, b) ==
    IF Len(b) = 0 THEN FALSE
    ELSE IF Len(a) = 0 THEN TRUE
    ELSE IF a[1] # b[1] THEN CodePoint(a[1]) < CodePoint(b[1])
    ELSE StrLess(Tail(a), Tail(b))

\* s.startswith(prefix)
StartsWith(s, prefix) ==
    Len(s) >= Len(prefix) /\ SubSeq(s, 1, Len(prefix)) = prefix

\* s.split('/')[0]
BeforeSlash(s) ==
    LET slashes == { i \in 1..Len(s) : s[i] = "/" }
    IN  IF slashes = {} THEN s
        ELSE SubSeq(s, 1, (CHOOSE i \in slashes : \A j \in slashes : i <= j) - 1)

\* f"{n:03d}"
Pad3(n) ==
    IF n < 10 THEN <<"0", "0">> \o IntToStr(n)
    ELSE IF n < 100 THEN <<"0">> \o IntToStr(n)
    ELSE IntToStr(n)

\* list.sort(key=AccountNumber, reverse=True): contacts with equal account
\* numbers keep their order
RECURSIVE InsertDescending(_, _)
InsertDescending(sorted, contact) ==
    IF Len(sorted) = 0 THEN <<contact>>
    ELSE IF StrLess(sorted[1].AccountNumber, contact.AccountNumber)
    THEN <<contact>> \o sorted
    ELSE <<sorted[1]>> \o InsertDescending(Tail(sorted), contact)

RECURSIVE SortDescending(_)
SortDescending(contacts) ==
    IF Len(contacts) = 0 THEN <<>>
    ELSE InsertDescending(SortDescending(SubSeq(contacts, 1, Len(contacts) - 1)),
                          contacts[Len(contacts)])

NoContactFound == [found |-> FALSE]
FoundContact(contact) == [found |-> TRUE, contact |-> contact]

\* search_contact_by_account_number(account_number)
search_contact_by_account_number(answer, account_number) ==
    IF Len(account_number) = 8
    THEN IF answer.status # 200 THEN NoContactFound
         ELSE LET matching_contacts ==
                      SelectSeq(answer.Contacts,
                                LAMBDA c : StartsWith(c.AccountNumber, account_number))
              IN  IF Len(matching_contacts) = 0 THEN NoContactFound
                  ELSE FoundContact(SortDescending(matching_contacts)[1])
    ELSE IF ~parse_account_number(account_number).ok \/ answer.status # 200
    THEN NoContactFound
    ELSE LET contacts == SelectSeq(answer.Contacts,
                                   LAMBDA c : c.AccountNumber = account_number)
         IN  IF Len(contacts) = 0 THEN NoContactFound ELSE FoundContact(contacts[1])

\* check_contact_exists(account_number)
check_contact_exists(answer, account_number) ==
    IF answer.status # 200 THEN NoContactFound
    ELSE LET contacts == SelectSeq(answer.Contacts,
                                   LAMBDA c : c.AccountNumber = account_number)
         IN  IF Len(contacts) = 0 THEN NoContactFound ELSE FoundContact(contacts[1])

\* the loop of find_next_available_contact from attempt on
RECURSIVE NextFree(_, _, _, _, _, _)
NextFree(answer, property_base, next_sequence, contact_code, attempt, max_attempts) ==
    IF attempt >= max_attempts THEN NoAccount
    ELSE LET test_account == property_base \o Pad3(next_sequence + attempt)
                                 \o contact_code
         IN  IF ~check_contact_exists(answer, test_account).found
             THEN [ok |-> TRUE, value |-> test_account]
             ELSE NextFree(answer, property_base, next_sequence, contact_code,
                           attempt + 1, max_attempts)

\* find_next_available_contact(base_account, contact_code, max_attempts)
find_next_available_contact(answer, base_account, contact_code, max_attempts) ==
    LET parsed == parse_account_number(base_account)
    IN  IF ~parsed.ok THEN NoAccount
        ELSE NextFree(answer, parsed.base_code, StrToInt(parsed.sequence_digit) + 1,
                      contact_code, 0, max_attempts)

\* validate_contact_before_creation(existing_contact, contact_code)
validate_contact_before_creation(answer, existing_contact, contact_code) ==
    LET next_account_base == increment_account_sequence(existing_contact.AccountNumber)
        proposed_account == BeforeSlash(next_account_base.value) \o contact_code
    IN  IF ~next_account_base.ok
        THEN [op |-> "validate", status |-> "error"]
        ELSE IF ~check_contact_exists(answer, proposed_account).found
        THEN [op |-> "validate", status |-> "available",
              proposed_account |-> proposed_account]
        ELSE [op |-> "validate", status |-> "duplicate_found",
              proposed_account |-> proposed_account,
              base_account |-> BeforeSlash(next_account_base.value),
              contact_code |-> contact_code,
              max_attempts |-> DefaultMaxAttempts,
              next_available |->
                  find_next_available_contact(answer,
                      BeforeSlash(next_account_base.value), contact_code,
                      DefaultMaxAttempts)]

PropertyBase == <<"A", "B", "C", "0", "0", "1", "2", "3">>
OtherContact == [AccountNumber |-> <<"X", "Y", "Z", "0", "0", "9", "9", "9", "1", "/", "1", "A">>,
                 ContactStatus |-> "ACTIVE"]

CreationCodes == {<<"/", "1", "A">>, <<"/", "Z", "Z">>}

\* the store holds a contact of another property, the latest contact of the
\* property and, for taken of the following sequence numbers, a contact
\* with code /1A
ContactStores ==
    { [status |-> s, group |-> g,
       Contacts |-> <<OtherContact,
                      [AccountNumber |-> AccountNumberOf(PropertyBase, q, c),
                       ContactStatus |-> "ACTIVE"]>>
                    \o [k \in 1..taken |->
                          [AccountNumber |->
                               AccountNumberOf(PropertyBase, q + k, <<"/", "1", "A">>),
                           ContactStatus |-> "ACTIVE"]]] :
        s \in {200, 500}, g \in BOOLEAN, q \in {0, 8},
        c \in {<<"/", "1", "A">>, <<"/", "P">>}, taken \in 0..1 }

InitContacts ==
    /\ pc = "contacts"
    /\ store \in ContactStores
    /\ contact_data = store.Contacts[2]
    /\ move_in_date = 0
    /\ invoice = NoInvoice
    /\ vacate_date = 0
    /\ billing_info = NoInfo
    /\ period = NoPeriod
    /\ log = {}
    /\ split_result = NotRun
    /\ writes = <<>>
    /\ exec_result = NotRun
    /\ incremented = NoAccount
    /\ parsed_account = NotParsed
    /\ can_split = FALSE

\* search_contact_by_account_number(account_number) with the property base
\* or with the account number of the latest contact
SearchContactByAccountNumber(account_number) ==
    /\ pc = "contacts"
    /\ exec_result' = [op |-> "search", account_number |-> account_number]
                          @@ search_contact_by_account_number(store, account_number)
    /\ UNCHANGED <<pc, parsed_account, can_split, contact_data, invoice, vacate_date,
                   move_in_date, billing_info, period, log, split_result, store,
                   writes, incremented>>

\* validate_contact_before_creation(existing_contact, contact_code)
ValidateContactBeforeCreation(contact_code) ==
    /\ pc = "contacts"
    /\ exec_result' = validate_contact_before_creation(store, contact_data, contact_code)
    /\ UNCHANGED <<pc, parsed_account, can_split, contact_data, invoice, vacate_date,
                   move_in_date, billing_info, period, log, split_result, store,
                   writes, incremented>>

\* find_next_available_contact(base_account, contact_code, max_attempts)
FindNextAvailableContact(base_account, contact_code, max_attempts) ==
    /\ pc = "contacts"
    /\ exec_result' = [op |-> "find_next", base_account |-> base_account,
                       contact_code |-> contact_code, max_attempts |-> max_attempts,
                       next_available |->
                           find_next_available_contact(store, base_account,
                                                       contact_code, max_attempts)]
    /\ UNCHANGED <<pc, parsed_account, can_split, contact_data, invoice, vacate_date,
                   move_in_date, billing_info, period, log, split_result, store,
                   writes, incremented>>

Creations == SelectSeq(writes, LAMBDA w : w.op = "create_contact" /\ w.ok)
CreateRequests == SelectSeq(writes, LAMBDA w : w.op = "create_contact")

NotCreated == [op |-> "create", created |-> FALSE]

\* create_new_contact(existing_contact, new_contact_data): the contact is
\* created from the latest contact of the property; a response without a
\* body creates the contact and returns None
CreateNewContact(new_contact_data, response, group_response) ==
    /\ pc = "contacts"
    /\ Len(CreateRequests) < MaxCreations
    /\ LET new_account_number == increment_account_sequence(contact_data.AccountNumber)
           new_contact ==
               [AccountNumber |-> BeforeSlash(new_account_number.value)
                                      \o new_contact_data.contact_code,
                ContactStatus |-> "ACTIVE"]
       IN  IF \/ new_contact_data.first_name = ""
              \/ new_contact_data.contact_code \notin CONTACT_CODES
              \/ ~new_account_number.ok
           THEN /\ exec_result' = NotCreated
                /\ UNCHANGED <<store, writes, contact_data>>
           ELSE IF response = "error"
           THEN /\ writes' = Append(writes, [op |-> "create_contact", ok |-> FALSE,
                                             contact |-> new_contact])
                /\ exec_result' = NotCreated
                /\ UNCHANGED <<store, contact_data>>
           ELSE /\ store' = [store EXCEPT !.Contacts = Append(@, new_contact)]
                /\ contact_data' = new_contact
                /\ IF response = "empty"
                   THEN /\ writes' = Append(writes, [op |-> "create_contact", ok |-> TRUE,
                                                     contact |-> new_contact])
                        /\ exec_result' = NotCreated
                   ELSE IF ~store.group \/ store.status # 200
                   THEN /\ writes' = Append(writes, [op |-> "create_contact", ok |-> TRUE,
                                                     contact |-> new_contact])
                        /\ exec_result' = [op |-> "create", created |-> TRUE,
                                           contact |-> new_contact,
                                           group_assignment |-> "No contact group found"]
                   ELSE /\ writes' = writes \o
                               <<[op |-> "create_contact", ok |-> TRUE,
                                  contact |-> new_contact],
                                 [op |-> "add_to_group", ok |-> group_response = "ok",
                                  contact |-> new_contact]>>
                        /\ exec_result' = [op |-> "create", created |-> TRUE,
                                           contact |-> new_contact,
                                           group_assignment |->
                                               IF group_response = "ok"
                                               THEN "Added to group"
                                               ELSE "Failed to add to group"]
    /\ UNCHANGED <<pc, parsed_account, can_split, invoice, vacate_date,
                   move_in_date, billing_info, period, log, split_result,
                   incremented>>

NewContactData ==
    { [contact_code |-> c, first_name |-> f] : c \in CreationCodes, f \in {"Sam", ""} }

NextContacts ==
    \/ \E account_number \in {PropertyBase, contact_data.AccountNumber} :
           SearchContactByAccountNumber(account_number)
    \/ \E contact_code \in CreationCodes : ValidateContactBeforeCreation(contact_code)
    \/ \E base_account \in {BeforeSlash(contact_data.AccountNumber),
                            contact_data.AccountNumber},
          contact_code \in CreationCodes, max_attempts \in 1..2 :
           FindNextAvailableContact(base_account, contact_code, max_attempts)
    \/ \E new_contact_data \in NewContactData,
          response \in Responses \cup {"empty"}, group_response \in Responses :
           CreateNewContact(new_contact_data, response, group_response)

SpecContacts == InitContacts /\ [][NextContacts]_vars

(* C25: given a base account without contact code, as
   validate_contact_before_creation passes it, and a contact code,
   find_next_available_contact returns the first account number, from the
   sequence after the current one upward, that no contact has; the account
   number it returns is valid under the grammar; and it returns None only
   when all max_attempts slots are taken *)
FindCalled ==
    /\ exec_result # NotRun
    /\ exec_result.op \in {"find_next", "validate"}
    /\ "next_available" \in DOMAIN exec_result
    /\ \A i \in 1..Len(exec_result.base_account) : exec_result.base_account[i] # "/"
    /\ store.status = 200

\* the account number of the k-th slot after the sequence of the base account
Slot(base_account, contact_code, k) ==
    AccountNumberOf(SubSeq(base_account, 1, 8),
                    StrToInt(SubSeq(base_account, 9, Len(base_account))) + k,
                    contact_code)

FreeSlots(base_account, contact_code, max_attempts) ==
    { k \in 1..max_attempts :
        \A i \in 1..Len(store.Contacts) :
            store.Contacts[i].AccountNumber # Slot(base_account, contact_code, k) }

C25_NextAvailableFound ==
    FindCalled =>
        LET free == FreeSlots(exec_result.base_account, exec_result.contact_code,
                              exec_result.max_attempts)
        IN  IF exec_result.next_available.ok
            THEN /\ free # {}
                 /\ exec_result.next_available.value =
                        Slot(exec_result.base_account, exec_result.contact_code,
                             CHOOSE k \in free : \A j \in free : k <= j)
                 /\ MatchesGrammar(exec_result.next_available.value)
            ELSE free = {}

(* C29: after any sequence of contact creations at one property, each by
   create_new_contact from the then-latest contact,
   search_contact_by_account_number called with the 8-character property
   base returns the contact created last *)
CreatedInSequence ==
    Len(SelectSeq(store.Contacts, LAMBDA c : StartsWith(c.AccountNumber, PropertyBase)))
        = 1 + Len(Creations)

C29_SearchReturnsLatest ==
    (/\ exec_result # NotRun
     /\ exec_result.op = "search"
     /\ exec_result.account_number = PropertyBase
     /\ store.status = 200
     /\ CreatedInSequence) =>
        /\ exec_result.found
        /\ exec_result.contact = contact_data

----------------------------------------------------------------------------
(* The split workflow over invoices with line items, together with
   create_new_invoice called on its own *)

\* create_new_invoice raises ZeroDivisionError before its request: at
\* new_amount / original_total, or at new_line_amount / Quantity
CreateRaises(inv) ==
    inv.Total = 0 \/ \E i \in 1..Len(LineItemsOf(inv)) : LineItemsOf(inv)[i].Quantity = 0

\* CreateNewInvoiceAlone sending the request with the lines built before the
\* exception
CreateNewInvoiceAlone_posts(response) ==
    /\ pc = "calculated"
    /\ split_result.success
    /\ IF CreateRaises(invoice)
       THEN /\ writes' = Append(writes,
                  [op |-> "create",
                   amount |-> split_result.split_calculation.new_occupier.amount,
                   LineItems |-> <<>>])
            /\ UNCHANGED store
            /\ exec_result' = [op |-> "create_new_invoice", created |-> FALSE]
       ELSE /\ writes' = Append(writes, CreatePayload)
            /\ store' = IF response = "ok" THEN [store EXCEPT !.new_created = TRUE]
                        ELSE store
            /\ exec_result' = [op |-> "create_new_invoice", created |-> response = "ok"]
    /\ pc' = "created"
    /\ UNCHANGED <<parsed_account, can_split, contact_data, invoice, vacate_date,
                   move_in_date, billing_info, period, log, split_result,
                   incremented>>

\* create_new_invoice(original_invoice, new_contact_id, new_amount,
\* period_description) with the amount and period of the new occupier
CreateNewInvoiceAlone(response) ==
    /\ pc = "calculated"
    /\ split_result.success
    /\ IF CreateRaises(invoice)
       THEN /\ UNCHANGED <<writes, store>>
            /\ exec_result' = [op |-> "create_new_invoice", created |-> FALSE]
       ELSE /\ writes' = Append(writes, CreatePayload)
            /\ store' = IF response = "ok" THEN [store EXCEPT !.new_created = TRUE]
                        ELSE store
            /\ exec_result' = [op |-> "create_new_invoice", created |-> response = "ok"]
    /\ pc' = "created"
    /\ UNCHANGED <<parsed_account, can_split, contact_data, invoice, vacate_date,
                   move_in_date, billing_info, period, log, split_result,
                   incremented>>

NextWrites ==
    \/ CalculateSplit
    \/ \E r \in Responses : ModifyExistingInvoice(r)
    \/ \E r \in Responses : CreateNewInvoice(r)
    \/ ExecuteWithoutSplit
    \/ \E r \in Responses : CreateNewInvoiceAlone(r)

SpecWrites == InitLines /\ [][NextWrites]_vars

(* C28: when the Total of the original invoice is 0, or one of its line
   items has Quantity 0, modify_existing_invoice returns failure,
   create_new_invoice returns no invoice and neither issues a write; so
   execute_invoice_split on such an invoice reports failure and the invoice
   store is left as it was *)
ZeroTotalOrQuantity ==
    \/ invoice.Total = 0
    \/ \E i \in 1..Len(LineItemsOf(invoice)) : LineItemsOf(invoice)[i].Quantity = 0

C28_ZeroDivisionWritesNothing ==
    ZeroTotalOrQuantity =>
        /\ writes = <<>>
        /\ store = EmptyStore
        /\ pc = "done" => ~exec_result.success
        /\ (pc = "done" /\ split_result.success) => ~exec_result.modified_invoice
        /\ pc = "created" => ~exec_result.created

C28_Witness ==
    /\ pc = "done"
    /\ split_result.success
    /\ ~exec_result.success
    /\ invoice.Total # 0
    /\ ZeroTotalOrQuantity

====
